---- MODULE Spec2Model ----
(***************************************************************************)
(* nlpromql: the information-structure builder (info_structure/builder.go, *)
(* its loader and saver) and the synonym batch dispatcher                  *)
(* (langchain/client.go).                                                  *)
(*                                                                         *)
(* Names are Go strings.  Every string the model uses is listed in         *)
(* ByteOrder in Go's string order (bytewise, so upper case sorts first).   *)
(*                                                                         *)
(* Spec         callers of BuildInformationStructure running concurrently  *)
(* SpecSeq      one caller, the calls following one another                *)
(* SpecBatch    the batch preparation of the two update functions alone    *)
(* SpecDispatch one GetMetricSynonyms / GetLabelSynonyms call, with its    *)
(*              goroutines interleaved                                     *)
(* SpecDispatchLive  the same with every goroutine scheduled in the end    *)
(* SpecResolve  two ProcessUserQuery calls on the same inputs              *)
(* SpecServe    main: one build, then the server; a rebuild while it runs  *)
(***************************************************************************)
EXTENDS Integers, Sequences, FiniteSets, TLC

VARIABLES
    disk,          \* the five JSON documents of InfoStructureManager
    is,            \* InfoStructure: the five map pointers (0 = nil, p = the maps loaded by caller p)
    buildStatus,   \* InfoStructure.buildStatus, guarded by buildStatusLock
    frame,         \* per caller: position in BuildInformationStructure and its locals
    received,      \* the provider dispatch the latest step made, under its caller: batches and results
    hist,          \* observations kept across calls
    numCalls,      \* number of BuildInformationStructure calls started so far
    batching,      \* the batching step of UpdateMetricMap / UpdateLabelMap on its own
    dispatch,      \* one GetMetricSynonyms / GetLabelSynonyms call, goroutine by goroutine
    resolver,      \* ProcessUserQuery on its own: its inputs and the results of its calls
    server         \* main and the PromQL server: the maps handed over and the handlers

buildVars == <<disk, is, buildStatus, frame, received, hist, numCalls>>

vars ==
    <<disk, is, buildStatus, frame, received, hist, numCalls, batching, dispatch,
      resolver, server>>

----------------------------------------------------------------------------
(* Bounds *)

MaxMetrics == 12        \* live metric names m(1)..m(MaxMetrics)
MaxLabels == 3          \* live label names
MaxCallers == 2         \* concurrent callers of BuildInformationStructure
MaxCalls == 2           \* calls of BuildInformationStructure per behaviour
MaxBatchNames == 21     \* names offered to the batching step and to one dispatch
RotationBound == 1      \* map iteration orders tried besides ascending and descending
MaxValues == 6          \* values the store holds for one label
MaxHandlers == 1        \* requests the server handles, each in its goroutine

(* Program constants *)

metricBatchSize == 10
labelBatchSize == 10
catalogBatchSize == 100

----------------------------------------------------------------------------
(* Strings *)

AllMetricNames ==
    <<"Go_threads", "m01", "m02", "m03", "m04", "m05", "m06", "m07", "m08",
      "m09", "m10", "m11", "m12", "m13", "m14", "m15", "m16", "m17", "m18",
      "m19", "m20", "m21", "m22", "m23">>

AllLabelNames == <<"Job", "l01", "l02", "l03", "l04">>

\* keys and values of the history table: JSON texts, and texts that are not JSON
KeyCpuTag == "[\"cpu\",\"tag\"]"

KeyCpu == "[\"cpu\"]"

KeyDiskEnv == "[\"disk\",\"env\"]"

KeyNotJSON == "cpu,tag"

ValueJobX == "{\"Go_threads\":{\"Job\":\"x\"}}"

ValueL01A == "{\"Go_threads\":{\"l01\":\"a\"},\"m01\":{\"l01\":\"a\"}}"

ValueNotJSON == "prod"

ByteOrder ==
    <<"Go_threads", "Job", KeyCpuTag, KeyCpu, KeyDiskEnv, "a", "b", KeyNotJSON,
      "l01", "l02", "l03", "l04">>
    \o Tail(AllMetricNames)
    \o <<"v1", "v2", "v3", "v4", "v5", "v6", "v7", "v8", "x">>

Range(s) == {s[i] : i \in DOMAIN s}

ToLower(s) ==
    CASE s = "Go_threads" -> "go_threads"
      [] s = "Job" -> "job"
      [] s = "CPU" -> "cpu"
      [] OTHER -> s

\* the strings of S in ascending order
Asc(S) == SelectSeq(ByteOrder, LAMBDA x : x \in S)

Reverse(s) == [i \in 1..Len(s) |-> s[Len(s) + 1 - i]]

Rotate(s, k) ==
    IF Len(s) = 0 THEN s
    ELSE [i \in 1..Len(s) |-> s[((i - 1 + k) % Len(s)) + 1]]

\* Go's range over a map visits the keys in an unspecified order.
MapOrders(S) ==
    {Asc(S), Reverse(Asc(S))} \cup {Rotate(Asc(S), k) : k \in 1..RotationBound}

Callers == 1..MaxCallers

Perms(n) == {f \in [1..n -> 1..n] : \A i, j \in 1..n : f[i] = f[j] => i = j}

----------------------------------------------------------------------------
(* Errors: a kind and, for a failed synonym batch, the index of the batch *)

NoErr == [kind |-> "nil", batch |-> 0]

Err(kind, b) == [kind |-> kind, batch |-> b]

----------------------------------------------------------------------------
(* The monitoring store (QueryEngine) and the synonym provider (LLM) *)

MetricNames == SubSeq(AllMetricNames, 1, MaxMetrics)

LabelNames == SubSeq(AllLabelNames, 1, MaxLabels)

\* AllMetrics(): the store's metric names at the time of the call; the store
\* lists every name once
LiveMetricLists ==
    {SubSeq(MetricNames, 1, n) : n \in {2, MaxMetrics}}

\* AllLabels(): the store's label names, in the order the engine returns them
LiveLabelLists == {SubSeq(LabelNames, 1, 2), Reverse(LabelNames)}

\* AllMetadata(): descriptions exist for some metrics only
StoreMetadata == [n \in {"Go_threads", "m02"} |-> "help"]

\* the series CustomQuery can return: __name__ and the other labels
StoreSeries ==
    { [name |-> "Go_threads", labels |-> ("Job" :> "x") @@ ("l01" :> "a")],
      [name |-> "Go_threads", labels |-> ("Job" :> "x") @@ ("l01" :> "b")],
      [name |-> "m01", labels |-> ("l01" :> "a")] }

\* synonyms the provider answers for a name
SynonymsOf(n) ==
    IF n \in Range(AllLabelNames) THEN <<"tag">>
    ELSE IF n \in {"Go_threads", "m01"} THEN <<"cpu", "threads">>
    ELSE <<"cpu">>

\* names the provider may leave out of an answer
OmittedNames == {"m01"}

ProviderKinds == {"ok", "omit", "fail"}

\* one provider call (callLLMWithTool) for a batch of names
ProviderCall(names, b, kind) ==
    CASE kind = "fail" ->
            [synonyms |-> <<>>, err |-> Err("llm", b)]
      [] kind = "omit" ->
            [synonyms |-> [n \in names \ OmittedNames |-> SynonymsOf(n)], err |-> NoErr]
      [] OTHER ->
            [synonyms |-> [n \in names |-> SynonymsOf(n)], err |-> NoErr]

----------------------------------------------------------------------------
(* langchain/client.go: consolidation of the batch results *)

AppendSynonyms(cons, syn) ==
    [k \in DOMAIN cons \cup DOMAIN syn |->
        (IF k \in DOMAIN cons THEN cons[k] ELSE <<>>)
        \o (IF k \in DOMAIN syn THEN syn[k] ELSE <<>>)]

\* variant: every failed result overwrites the error kept so far
RECURSIVE ConsolidateLastError(_, _, _, _)
ConsolidateLastError(chan, i, cons, firstError) ==
    IF i > Len(chan) THEN [synonyms |-> cons, firstError |-> firstError]
    ELSE IF chan[i].err # NoErr
         THEN ConsolidateLastError(chan, i + 1, cons, chan[i].err)
         ELSE ConsolidateLastError(chan, i + 1, AppendSynonyms(cons, chan[i].synonyms),
                                   firstError)

RECURSIVE ConsolidateFrom(_, _, _, _)
ConsolidateFrom(chan, i, cons, firstError) ==
    IF i > Len(chan) THEN [synonyms |-> cons, firstError |-> firstError]
    ELSE IF chan[i].err # NoErr
         THEN ConsolidateFrom(chan, i + 1, cons,
                              IF firstError = NoErr THEN chan[i].err ELSE firstError)
         ELSE ConsolidateFrom(chan, i + 1, AppendSynonyms(cons, chan[i].synonyms), firstError)

\* variant: the results of the successful batches are returned and the error dropped
ConsolidatePartial(chan) ==
    [synonyms |-> ConsolidateFrom(chan, 1, <<>>, NoErr).synonyms, err |-> NoErr]

\* the tail of GetMetricSynonyms / GetLabelSynonyms: drain the closed channel
Consolidate(chan) ==
    LET c == ConsolidateFrom(chan, 1, <<>>, NoErr)
    IN  IF c.firstError # NoErr
        THEN [synonyms |-> <<>>, err |-> c.firstError]
        ELSE [synonyms |-> c.synonyms, err |-> NoErr]

----------------------------------------------------------------------------
(* info_structure/builder.go: UpdateMetricMap and UpdateLabelMap *)

\* variant: the live list is not compared with AllNames
NewNamesUnfiltered(allNames, known) == allNames

\* names of the live list that are not in AllNames, in list order
NewNames(allNames, known) == SelectSeq(allNames, LAMBDA n : n \notin known)

\* metricsToQueryForSynonyms: new name -> description, "" when there is none
DescriptionsFor(newMetricNames, allMetricDescriptions) ==
    [n \in Range(newMetricNames) |->
        IF n \in DOMAIN allMetricDescriptions THEN allMetricDescriptions[n] ELSE ""]

\* variant: a batch is closed once it holds more than size names
RECURSIVE ChunksClosedLate(_, _, _, _, _)
ChunksClosedLate(seq, i, size, cur, acc) ==
    IF i > Len(seq)
    THEN IF Len(cur) > 0 THEN Append(acc, cur) ELSE acc
    ELSE LET c == Append(cur, seq[i])
         IN  IF Len(c) > size
             THEN ChunksClosedLate(seq, i + 1, size, <<>>, Append(acc, c))
             ELSE ChunksClosedLate(seq, i + 1, size, c, acc)

RECURSIVE Chunks(_, _, _, _, _)
Chunks(seq, i, size, cur, acc) ==
    IF i > Len(seq)
    THEN IF Len(cur) > 0 THEN Append(acc, cur) ELSE acc
    ELSE LET c == Append(cur, seq[i])
         IN  IF Len(c) >= size
             THEN Chunks(seq, i + 1, size, <<>>, Append(acc, c))
             ELSE Chunks(seq, i + 1, size, c, acc)

\* metric batches: maps name -> description, filled in map iteration order
MakeMetricBatches(order, toQuery) ==
    LET ch == Chunks(order, 1, metricBatchSize, <<>>, <<>>)
    IN  [k \in 1..Len(ch) |-> [n \in Range(ch[k]) |-> toQuery[n]]]

\* label batches: slices of the new names in list order
MakeLabelBatches(newLabelNames) ==
    Chunks(newLabelNames, 1, labelBatchSize, <<>>, <<>>)

TokensOf(name, synonyms) == {ToLower(name)} \cup Range(synonyms)

\* variant: Map is populated and AllNames is left alone
MergeSynonymsMapOnly(index, newSynonyms) ==
    LET toks == UNION {TokensOf(n, newSynonyms[n]) : n \in DOMAIN newSynonyms}
    IN  [Map |-> [t \in DOMAIN index.Map \cup toks |->
                    (IF t \in DOMAIN index.Map THEN index.Map[t] ELSE {})
                    \cup {n \in DOMAIN newSynonyms : t \in TokensOf(n, newSynonyms[n])}],
         AllNames |-> index.AllNames]

\* populate Map and AllNames from the provider's answer
MergeSynonyms(index, newSynonyms) ==
    LET toks == UNION {TokensOf(n, newSynonyms[n]) : n \in DOMAIN newSynonyms}
    IN  [Map |-> [t \in DOMAIN index.Map \cup toks |->
                    (IF t \in DOMAIN index.Map THEN index.Map[t] ELSE {})
                    \cup {n \in DOMAIN newSynonyms : t \in TokensOf(n, newSynonyms[n])}],
         AllNames |-> index.AllNames \cup DOMAIN newSynonyms]

\* the result channel: one result per batch, in arrival order
MetricResults(batches, outcome, arrival) ==
    [i \in 1..Len(batches) |->
        ProviderCall(DOMAIN batches[arrival[i]], arrival[i], outcome[arrival[i]])]

LabelResults(batches, outcome, arrival) ==
    [i \in 1..Len(batches) |->
        ProviderCall(Range(batches[arrival[i]]), arrival[i], outcome[arrival[i]])]

----------------------------------------------------------------------------
(* info_structure/builder.go: updateMetricLabelMapAndLabelValueMap *)

MetricsToQuery(allMetricNames, metricLabelMap) ==
    SelectSeq(allMetricNames, LAMBDA m : m \notin DOMAIN metricLabelMap)

\* the batch loop: batches of batchSize names, the last one shorter
RECURSIVE QueryBatches(_, _, _)
QueryBatches(metricsToQuery, i, batchSize) ==
    IF i >= Len(metricsToQuery) THEN <<>>
    ELSE LET size == IF i + batchSize > Len(metricsToQuery)
                     THEN Len(metricsToQuery) - i ELSE batchSize
         IN  <<SubSeq(metricsToQuery, i + 1, i + size)>>
             \o QueryBatches(metricsToQuery, i + size, size)

\* CustomQuery({__name__=~"a|b|..."}): the series of the non-empty names
CustomQuery(metricBatch) ==
    {it \in StoreSeries : it.name \in {m \in Range(metricBatch) : m # ""}}

\* record every (metric, label, value) of the result in both catalogs
AddSeries(cat, items) ==
    LET mlm == cat.metricLabelMap
        lvm == cat.labelValueMap
        ms == DOMAIN mlm \cup {it.name : it \in items}
        LabelsOf(m) == (IF m \in DOMAIN mlm THEN DOMAIN mlm[m] ELSE {})
                       \cup UNION {DOMAIN it.labels : it \in {x \in items : x.name = m}}
        ls == DOMAIN lvm \cup UNION {DOMAIN it.labels : it \in items}
    IN  [metricLabelMap |->
            [m \in ms |-> [l \in LabelsOf(m) |->
                (IF m \in DOMAIN mlm /\ l \in DOMAIN mlm[m] THEN mlm[m][l] ELSE {})
                \cup {it.labels[l] : it \in {x \in items : x.name = m /\ l \in DOMAIN x.labels}}]],
         labelValueMap |->
            [l \in ls |->
                (IF l \in DOMAIN lvm THEN lvm[l] ELSE {})
                \cup {it.labels[l] : it \in {x \in items : l \in DOMAIN x.labels}}]]

\* run the queries in order; query number failAt fails (0: none does)
RECURSIVE RunQueries(_, _, _, _)
RunQueries(cat, batches, k, failAt) ==
    IF k > Len(batches) THEN [cat |-> cat, err |-> NoErr]
    ELSE IF k = failAt THEN [cat |-> cat, err |-> Err("query", k)]
    ELSE RunQueries(AddSeries(cat, CustomQuery(batches[k])), batches, k + 1, failAt)

----------------------------------------------------------------------------
(* info_structure: the five JSON documents, SaveInfoStructure, LoadInfoStructure *)

Files == <<"metric_map", "label_map", "metric_label_map", "label_value_map", "nlp_to_metric_map">>

\* a set written as a JSON array.  The order of the array is the map's
\* iteration order; the loader builds a set from it, so one order is kept.
SetToList(S) == Asc(S)

convertMetricMapToLists(metricMap) ==
    [Map |-> [t \in DOMAIN metricMap.Map |-> SetToList(metricMap.Map[t])],
     AllNames |-> SetToList(metricMap.AllNames)]

convertLabelMapToLists(labelMap) ==
    [Map |-> [t \in DOMAIN labelMap.Map |-> SetToList(labelMap.Map[t])],
     AllNames |-> SetToList(labelMap.AllNames)]

\* variant: the values of the labels are not written
convertMetricLabelMapToListsNoValues(metricLabelMap) ==
    [m \in DOMAIN metricLabelMap |-> [l \in DOMAIN metricLabelMap[m] |-> <<>>]]

convertMetricLabelMapToLists(metricLabelMap) ==
    [m \in DOMAIN metricLabelMap |->
        [l \in DOMAIN metricLabelMap[m] |-> SetToList(metricLabelMap[m][l])]]

convertLabelValueMapToLists(labelValueMap) ==
    [l \in DOMAIN labelValueMap |-> SetToList(labelValueMap[l])]

\* variant: the all_names array of the document is not read
convertJSONToMetricMapNoNames(data) ==
    [Map |-> [t \in DOMAIN data.Map |-> Range(data.Map[t])],
     AllNames |-> {}]

convertJSONToMetricMap(data) ==
    [Map |-> [t \in DOMAIN data.Map |-> Range(data.Map[t])],
     AllNames |-> Range(data.AllNames)]

convertJSONToLabelMap(data) ==
    [Map |-> [t \in DOMAIN data.Map |-> Range(data.Map[t])],
     AllNames |-> Range(data.AllNames)]

convertJSONToMetricLabelMap(data) ==
    [m \in DOMAIN data |-> [l \in DOMAIN data[m] |-> Range(data[m][l])]]

convertJSONToLabelValueMap(data) ==
    [l \in DOMAIN data |-> Range(data[l])]

\* what decoding leaves in the target when the file does not exist
ZeroData(f) ==
    IF f \in {"metric_map", "label_map"} THEN [Map |-> <<>>, AllNames |-> <<>>] ELSE <<>>

MissingFile(f) == [state |-> "missing", data |-> ZeroData(f)]

WrittenFile(data) == [state |-> "ok", data |-> data]

\* the JSON form of document f of the maps obj
JSONOf(obj, f) ==
    CASE f = "metric_map" -> convertMetricMapToLists(obj.metricMap)
      [] f = "label_map" -> convertLabelMapToLists(obj.labelMap)
      [] f = "metric_label_map" -> convertMetricLabelMapToLists(obj.metricLabelMap)
      [] f = "label_value_map" -> convertLabelValueMapToLists(obj.labelValueMap)
      [] OTHER -> obj.nlpToMetricMap

FileIndex == [f \in Range(Files) |-> CHOOSE k \in DOMAIN Files : Files[k] = f]

\* saveMapToFile on each file in turn; os.Create fails on file number failAt
\* (0: on none) and the files after it are not written
SaveInfoStructure(d, obj, failAt) ==
    [disk |-> [f \in Range(Files) |->
                IF failAt = 0 \/ FileIndex[f] < failAt
                THEN WrittenFile(JSONOf(obj, f)) ELSE d[f]],
     err |-> IF failAt = 0 THEN NoErr ELSE Err("create", failAt)]

\* loadMapFromFile on each file in turn: a missing file is not an error and
\* leaves the zero value, a file that cannot be opened (openFails) is an error
LoadInfoStructure(d, openFails) ==
    IF openFails THEN [err |-> Err("open", 0)]
    ELSE [err |-> NoErr,
          metricMap |-> convertJSONToMetricMap(d["metric_map"].data),
          labelMap |-> convertJSONToLabelMap(d["label_map"].data),
          metricLabelMap |-> convertJSONToMetricLabelMap(d["metric_label_map"].data),
          labelValueMap |-> convertJSONToLabelValueMap(d["label_value_map"].data),
          nlpToMetricMap |-> d["nlp_to_metric_map"].data]

----------------------------------------------------------------------------
(* info_structure/builder.go: BuildInformationStructure *)

Stages ==
    <<"Loading info structure",
      "Fetching existing metric names",
      "Fetching existing metric descriptions",
      "Updating existing metric map",
      "Fetching existing label names",
      "Fetching existing label map",
      "Updating existing metric label combinations map",
      "Saving new info structure">>

\* the error BuildInformationStructure returns: the failed stage and its cause
NoBuildErr == [stage |-> 0, cause |-> NoErr]

BuildErr(k, e) == [stage |-> k, cause |-> e]

EmptyIndex == [Map |-> <<>>, AllNames |-> {}]

\* the five maps one call loads; is.MetricMap etc. point into them
EmptyMaps ==
    [metricMap |-> EmptyIndex, labelMap |-> EmptyIndex,
     metricLabelMap |-> <<>>, labelValueMap |-> <<>>, nlpToMetricMap |-> <<>>]

IdleFrame ==
    [pc |-> "idle", stage |-> 0, obj |-> EmptyMaps,
     allMetricNames |-> <<>>, allMetricDescriptions |-> <<>>, allLabelNames |-> <<>>,
     err |-> NoBuildErr, returned |-> FALSE]

NoBatches == [metric |-> <<>>, label |-> <<>>, chan |-> <<>>]

\* the latest step made no provider dispatch
NoDispatch == [p \in Callers |-> NoBatches]

InitDisk == [f \in Range(Files) |-> MissingFile(f)]

\* the names of a batch: the keys of a metric batch, the elements of a label batch
BatchNamesOf(kind, batch) == IF kind = "metric" THEN DOMAIN batch ELSE Range(batch)

\* names of the batches whose result carries an error
FailedNames(kind, batches, chan) ==
    UNION {BatchNamesOf(kind, batches[chan[i].err.batch]) :
           i \in {j \in DOMAIN chan : chan[j].err # NoErr}}

InitHist ==
    [diskAtStart |-> [p \in Callers |-> InitDisk],
     committed |-> [metricMap |-> EmptyIndex, labelMap |-> EmptyIndex],
     lastIndex |-> [metricMap |-> EmptyIndex, labelMap |-> EmptyIndex],
     lastOk |-> FALSE,
     lastLive |-> [metrics |-> <<>>, labels |-> <<>>],
     retry |-> [metric |-> {}, label |-> {}, again |-> {}]]

InitBuild ==
    /\ disk = InitDisk
    /\ is = [MetricMap |-> 0, LabelMap |-> 0, MetricLabelMap |-> 0,
             LabelValueMap |-> 0, NlpToMetricMap |-> 0]
    /\ buildStatus = [IsRunning |-> FALSE, ProgressStage |-> "", Error |-> NoErr,
                      EndTimeSet |-> FALSE]
    /\ frame = [p \in Callers |-> IdleFrame]
    /\ received = NoDispatch
    /\ hist = InitHist
    /\ numCalls = 0

\* the maps the InfoStructure's pointers reference (no index while they are nil)
MetricMapOf == IF is.MetricMap = 0 THEN EmptyIndex ELSE frame[is.MetricMap].obj.metricMap

LabelMapOf == IF is.LabelMap = 0 THEN EmptyIndex ELSE frame[is.LabelMap].obj.labelMap

AtStage(p, k) == frame[p].pc = "run" /\ frame[p].stage = k

\* caller p is inside BuildInformationStructure
InFlight(p) == frame[p].pc # "idle"

\* a stage succeeded: the call is at the next stage
Advance(f) == [f EXCEPT !.pc = "run", !.stage = @ + 1]

\* lines 317-322: under the status lock
updateProgressStage(stage) == [buildStatus EXCEPT !.ProgressStage = stage]

\* a stage succeeded: the status names the next stage before anything else is done
EnterNextStage(p) == updateProgressStage(Stages[frame[p].stage + 1])

\* a stage failed: return the wrapped error through the deferred function
Fail(f, e) == [f EXCEPT !.pc = "defer", !.err = BuildErr(f.stage, e)]

\* variant: the error is not recorded in the status
updateErrorStatusNoError(e) ==
    [buildStatus EXCEPT !.IsRunning = FALSE, !.EndTimeSet = TRUE]

\* lines 324-330: under the status lock
updateErrorStatus(e) ==
    [buildStatus EXCEPT !.Error = e, !.IsRunning = FALSE, !.EndTimeSet = TRUE]

\* lines 229-235: the status is reset under the status lock, which is then released.
\* Callers are interchangeable goroutines: they are numbered in the order of
\* their first call.
Start(p) ==
    /\ frame[p].pc = "idle"
    /\ numCalls < MaxCalls
    /\ \A q \in 1..(p - 1) : InFlight(q) \/ frame[q].returned
    /\ numCalls' = numCalls + 1
    /\ buildStatus' = [IsRunning |-> TRUE, ProgressStage |-> "Initializing",
                       Error |-> NoErr, EndTimeSet |-> FALSE]
    /\ frame' = [frame EXCEPT ![p] = [IdleFrame EXCEPT !.pc = "enter", !.stage = 1,
                                                       !.obj = frame[p].obj]]
    /\ received' = NoDispatch
    /\ hist' = [hist EXCEPT !.diskAtStart[p] = disk]
    /\ UNCHANGED <<disk, is, batching, dispatch, resolver, server>>

\* line 245: the first stage is announced
EnterLoad(p) ==
    /\ frame[p].pc = "enter"
    /\ buildStatus' = updateProgressStage(Stages[frame[p].stage])
    /\ frame' = [frame EXCEPT ![p].pc = "run"]
    /\ received' = NoDispatch
    /\ UNCHANGED <<disk, is, hist, numCalls, batching, dispatch, resolver, server>>

\* variant: pointers that are set already are left as they are
PointAtLoadedOnce(p) ==
    IF is.MetricMap # 0 THEN is
    ELSE [MetricMap |-> p, LabelMap |-> p, MetricLabelMap |-> p,
          LabelValueMap |-> p, NlpToMetricMap |-> p]

\* lines 252-256: the five pointers are set to the maps this call has loaded
PointAtLoaded(p) ==
    [MetricMap |-> p, LabelMap |-> p, MetricLabelMap |-> p,
     LabelValueMap |-> p, NlpToMetricMap |-> p]

\* lines 246-256: load the documents and point the InfoStructure at the loaded maps
Load(p) ==
    /\ AtStage(p, 1)
    /\ \E openFails \in BOOLEAN :
         LET r == LoadInfoStructure(disk, openFails)
         IN  IF r.err # NoErr
             THEN /\ frame' = [frame EXCEPT ![p] = Fail(@, r.err)]
                  /\ buildStatus' = updateErrorStatus(r.err)
                  /\ UNCHANGED is
             ELSE /\ frame' = [frame EXCEPT ![p] =
                        Advance([@ EXCEPT !.obj =
                            [metricMap |-> r.metricMap, labelMap |-> r.labelMap,
                             metricLabelMap |-> r.metricLabelMap,
                             labelValueMap |-> r.labelValueMap,
                             nlpToMetricMap |-> r.nlpToMetricMap]])]
                  /\ is' = PointAtLoaded(p)
                  /\ buildStatus' = EnterNextStage(p)
    /\ received' = NoDispatch
    /\ UNCHANGED <<disk, hist, numCalls, batching, dispatch, resolver, server>>

\* lines 260-264
FetchMetricNames(p) ==
    /\ AtStage(p, 2)
    /\ \/ \E names \in LiveMetricLists :
            /\ frame' = [frame EXCEPT ![p] = Advance([@ EXCEPT !.allMetricNames = names])]
            /\ buildStatus' = EnterNextStage(p)
       \/ /\ frame' = [frame EXCEPT ![p] = Fail(@, Err("store", 0))]
          /\ buildStatus' = updateErrorStatus(Err("store", 0))
    /\ received' = NoDispatch
    /\ UNCHANGED <<disk, is, hist, numCalls, batching, dispatch, resolver, server>>

\* lines 268-272
FetchMetricDescriptions(p) ==
    /\ AtStage(p, 3)
    /\ \/ /\ frame' = [frame EXCEPT ![p] =
                 Advance([@ EXCEPT !.allMetricDescriptions = StoreMetadata])]
          /\ buildStatus' = EnterNextStage(p)
       \/ /\ frame' = [frame EXCEPT ![p] = Fail(@, Err("store", 0))]
          /\ buildStatus' = updateErrorStatus(Err("store", 0))
    /\ received' = NoDispatch
    /\ UNCHANGED <<disk, is, hist, numCalls, batching, dispatch, resolver, server>>

\* lines 276-280 and 347-421
UpdateMetricMap(p) ==
    /\ AtStage(p, 4)
    /\ LET newMetricNames == NewNames(frame[p].allMetricNames, MetricMapOf.AllNames)
           toQuery == DescriptionsFor(newMetricNames, frame[p].allMetricDescriptions)
       IN  IF Len(newMetricNames) = 0
           THEN /\ frame' = [frame EXCEPT ![p] = Advance(@)]
                /\ received' = NoDispatch
                /\ hist' = [hist EXCEPT !.retry.metric = {}, !.retry.again = {}]
                /\ buildStatus' = EnterNextStage(p)
           ELSE \E order \in MapOrders(DOMAIN toQuery) :
                  LET batches == MakeMetricBatches(order, toQuery)
                  IN  \E outcome \in [1..Len(batches) -> ProviderKinds],
                         arrival \in Perms(Len(batches)) :
                        LET chan == MetricResults(batches, outcome, arrival)
                            r == Consolidate(chan)
                        IN  /\ received' = [NoDispatch EXCEPT ![p].metric = batches,
                                                            ![p].chan = chan]
                            /\ hist' = [hist EXCEPT
                                            !.retry.metric =
                                                FailedNames("metric", batches, chan),
                                            !.retry.again =
                                                hist.retry.metric \cap DOMAIN toQuery]
                            /\ IF r.err # NoErr
                               THEN /\ frame' = [frame EXCEPT ![p] = Fail(@, r.err)]
                                    /\ buildStatus' = updateErrorStatus(r.err)
                               ELSE /\ frame' = [frame EXCEPT
                                          ![is.MetricMap].obj.metricMap =
                                              MergeSynonyms(@, r.synonyms),
                                          ![p] = Advance(@)]
                                    /\ buildStatus' = EnterNextStage(p)
    /\ UNCHANGED <<disk, is, numCalls, batching, dispatch, resolver, server>>

\* lines 284-288
FetchLabelNames(p) ==
    /\ AtStage(p, 5)
    /\ \/ \E names \in LiveLabelLists :
            /\ frame' = [frame EXCEPT ![p] = Advance([@ EXCEPT !.allLabelNames = names])]
            /\ buildStatus' = EnterNextStage(p)
       \/ /\ frame' = [frame EXCEPT ![p] = Fail(@, Err("store", 0))]
          /\ buildStatus' = updateErrorStatus(Err("store", 0))
    /\ received' = NoDispatch
    /\ UNCHANGED <<disk, is, hist, numCalls, batching, dispatch, resolver, server>>

\* lines 292-296 and 425-485
UpdateLabelMap(p) ==
    /\ AtStage(p, 6)
    /\ LET newLabelNames == NewNames(frame[p].allLabelNames, LabelMapOf.AllNames)
           batches == MakeLabelBatches(newLabelNames)
       IN  IF Len(newLabelNames) = 0
           THEN /\ frame' = [frame EXCEPT ![p] = Advance(@)]
                /\ received' = NoDispatch
                /\ hist' = [hist EXCEPT !.retry.label = {}, !.retry.again = {}]
                /\ buildStatus' = EnterNextStage(p)
           ELSE \E outcome \in [1..Len(batches) -> ProviderKinds],
                   arrival \in Perms(Len(batches)) :
                  LET chan == LabelResults(batches, outcome, arrival)
                      r == Consolidate(chan)
                  IN  /\ received' = [NoDispatch EXCEPT ![p].label = batches,
                                                      ![p].chan = chan]
                      /\ hist' = [hist EXCEPT
                                      !.retry.label =
                                          FailedNames("label", batches, chan),
                                      !.retry.again =
                                          hist.retry.label \cap Range(newLabelNames)]
                      /\ IF r.err # NoErr
                         THEN /\ frame' = [frame EXCEPT ![p] = Fail(@, r.err)]
                              /\ buildStatus' = updateErrorStatus(r.err)
                         ELSE /\ frame' = [frame EXCEPT
                                    ![is.LabelMap].obj.labelMap =
                                        MergeSynonyms(@, r.synonyms),
                                    ![p] = Advance(@)]
                              /\ buildStatus' = EnterNextStage(p)
    /\ UNCHANGED <<disk, is, numCalls, batching, dispatch, resolver, server>>

\* lines 300-304 and 488-547; the failing query leaves the earlier results in the maps
UpdateCatalogs(p) ==
    /\ AtStage(p, 7)
    /\ LET cat == [metricLabelMap |-> frame[is.MetricLabelMap].obj.metricLabelMap,
                   labelValueMap |-> frame[is.LabelValueMap].obj.labelValueMap]
           batches == QueryBatches(
                          MetricsToQuery(frame[p].allMetricNames, cat.metricLabelMap),
                          0, catalogBatchSize)
       IN  \E failAt \in 0..Len(batches) :
             LET r == RunQueries(cat, batches, 1, failAt)
                 f1 == [frame EXCEPT
                          ![is.MetricLabelMap].obj.metricLabelMap = r.cat.metricLabelMap,
                          ![is.LabelValueMap].obj.labelValueMap = r.cat.labelValueMap]
             IN  IF r.err # NoErr
                 THEN /\ frame' = [f1 EXCEPT ![p] = Fail(@, r.err)]
                      /\ buildStatus' = updateErrorStatus(r.err)
                 ELSE /\ frame' = [f1 EXCEPT ![p] = Advance(@)]
                      /\ buildStatus' = EnterNextStage(p)
    /\ received' = NoDispatch
    /\ UNCHANGED <<disk, is, hist, numCalls, batching, dispatch, resolver, server>>

\* lines 308-314: save the maps the InfoStructure points at
Save(p) ==
    /\ AtStage(p, 8)
    /\ LET obj == [metricMap |-> MetricMapOf, labelMap |-> LabelMapOf,
                   metricLabelMap |-> frame[is.MetricLabelMap].obj.metricLabelMap,
                   labelValueMap |-> frame[is.LabelValueMap].obj.labelValueMap,
                   nlpToMetricMap |-> frame[is.NlpToMetricMap].obj.nlpToMetricMap]
       IN  \E failAt \in 0..Len(Files) :
             LET r == SaveInfoStructure(disk, obj, failAt)
             IN  /\ disk' = r.disk
                 /\ IF r.err # NoErr
                    THEN /\ frame' = [frame EXCEPT ![p] = Fail(@, r.err)]
                         /\ buildStatus' = updateErrorStatus(r.err)
                    ELSE /\ frame' = [frame EXCEPT ![p].pc = "defer"]
                         /\ UNCHANGED buildStatus
    /\ received' = NoDispatch
    /\ UNCHANGED <<is, hist, numCalls, batching, dispatch, resolver, server>>

\* lines 237-242: the deferred function runs and the call returns frame[p].err;
\* its locals are gone, the maps it loaded stay referenced by the InfoStructure
Return(p) ==
    /\ frame[p].pc = "defer"
    /\ buildStatus' = [buildStatus EXCEPT !.IsRunning = FALSE, !.EndTimeSet = TRUE]
    /\ frame' = [frame EXCEPT ![p] = [IdleFrame EXCEPT !.obj = frame[p].obj,
                                                       !.err = frame[p].err,
                                                       !.returned = TRUE]]
    /\ received' = NoDispatch
    /\ hist' = IF frame[p].err = NoBuildErr
               THEN [hist EXCEPT !.committed = [metricMap |-> MetricMapOf,
                                                labelMap |-> LabelMapOf],
                                 !.lastIndex = [metricMap |-> MetricMapOf,
                                                labelMap |-> LabelMapOf],
                                 !.lastOk = TRUE,
                                 !.lastLive = [metrics |-> frame[p].allMetricNames,
                                               labels |-> frame[p].allLabelNames]]
               ELSE [hist EXCEPT !.lastIndex = [metricMap |-> MetricMapOf,
                                                labelMap |-> LabelMapOf],
                                 !.lastOk = FALSE,
                                 !.lastLive = [metrics |-> <<>>, labels |-> <<>>]]
    /\ UNCHANGED <<disk, is, numCalls, batching, dispatch, resolver, server>>

Build(p) ==
    \/ Start(p)
    \/ EnterLoad(p)
    \/ Load(p)
    \/ FetchMetricNames(p)
    \/ FetchMetricDescriptions(p)
    \/ UpdateMetricMap(p)
    \/ FetchLabelNames(p)
    \/ UpdateLabelMap(p)
    \/ UpdateCatalogs(p)
    \/ Save(p)
    \/ Return(p)

----------------------------------------------------------------------------
(* The batching step of UpdateMetricMap (lines 351-396) and of UpdateLabelMap *)
(* (lines 429-460) for given AllNames, live list and map iteration order     *)

BatchPool == SubSeq(AllMetricNames, 1, MaxBatchNames)

\* live lists: a prefix of the pool as it is, reversed and rotated; the store
\* lists every name once
BatchLiveLists ==
    UNION {{SubSeq(BatchPool, 1, n), Reverse(SubSeq(BatchPool, 1, n)),
            Rotate(SubSeq(BatchPool, 1, n), 3)} : n \in 0..MaxBatchNames}

\* AllNames before the build: nothing, one name, all but the last ten names
BatchKnownSets ==
    {{}, {BatchPool[1]}, Range(SubSeq(BatchPool, 1, MaxBatchNames - metricBatchSize))}

IdleBatching == [known |-> {}, live |-> <<>>, metric |-> <<>>, label |-> <<>>, done |-> {}]

\* lines 351-396: the batches UpdateMetricMap hands to GetMetricSynonyms
BatchMetricNames ==
    /\ "metric" \notin batching.done
    /\ LET newMetricNames == NewNames(batching.live, batching.known)
           toQuery == DescriptionsFor(newMetricNames, StoreMetadata)
       IN  IF Len(newMetricNames) = 0
           THEN batching' = [batching EXCEPT !.done = @ \cup {"metric"}]
           ELSE \E order \in MapOrders(DOMAIN toQuery) :
                  batching' = [batching EXCEPT !.metric = MakeMetricBatches(order, toQuery),
                                               !.done = @ \cup {"metric"}]
    /\ UNCHANGED <<buildVars, dispatch, resolver, server>>

\* lines 429-460: the batches UpdateLabelMap hands to GetLabelSynonyms
BatchLabelNames ==
    /\ "label" \notin batching.done
    /\ LET newLabelNames == NewNames(batching.live, batching.known)
       IN  IF Len(newLabelNames) = 0
           THEN batching' = [batching EXCEPT !.done = @ \cup {"label"}]
           ELSE batching' = [batching EXCEPT !.label = MakeLabelBatches(newLabelNames),
                                            !.done = @ \cup {"label"}]
    /\ UNCHANGED <<buildVars, dispatch, resolver, server>>

----------------------------------------------------------------------------
(* langchain/client.go: GetMetricSynonyms (lines 112-171) and               *)
(* GetLabelSynonyms (lines 174-231), one goroutine per batch                *)

\* the batch lists of the calls modelled: no batch to three batches of either kind
DispatchInputs ==
    UNION {{[kind |-> "metric",
             batches |-> MakeMetricBatches(SubSeq(BatchPool, 1, n),
                             DescriptionsFor(SubSeq(BatchPool, 1, n), StoreMetadata))],
            [kind |-> "label",
             batches |-> MakeLabelBatches(SubSeq(BatchPool, 1, n))]} :
           n \in {0, 2, metricBatchSize + 1, MaxBatchNames}}

NoResult == [synonyms |-> <<>>, err |-> NoErr]

\* the contexts of package context: only a context made by WithCancel,
\* WithTimeout or WithDeadline can be cancelled, only the last two have a deadline
Contexts == {"Background", "WithCancel", "WithTimeout"}

Cancellable(ctx) == ctx \in {"WithCancel", "WithTimeout"}

HasDeadline(ctx) == ctx = "WithTimeout"

\* ctx: the context each worker hands to callLLMWithTool ("none": no call yet);
\* abandoned: the caller of the build no longer wants the result
IdleDispatch ==
    [pc |-> "idle", kind |-> "metric", batches |-> <<>>, next |-> 1, wg |-> 0,
     worker |-> <<>>, output |-> <<>>, calls |-> <<>>, sent |-> <<>>, ctx |-> <<>>,
     abandoned |-> FALSE, resultsChan |-> <<>>, closed |-> FALSE, ret |-> NoResult]

\* the state at the head of the loop over the batches
CallDispatch(in) ==
    [IdleDispatch EXCEPT
        !.pc = "loop", !.kind = in.kind, !.batches = in.batches,
        !.worker = [k \in DOMAIN in.batches |-> "none"],
        !.output = [k \in DOMAIN in.batches |-> NoResult],
        !.calls = [k \in DOMAIN in.batches |-> 0],
        !.ctx = [k \in DOMAIN in.batches |-> "none"],
        !.sent = [k \in DOMAIN in.batches |-> 0]]

\* variant: an unbuffered channel
ResultsChanCapNone(batches) == 0

\* lines 122-123: resultsChan := make(chan result, numBatches)
ResultsChanCap(batches) == Len(batches)

\* variant: the results are collected without waiting for the workers
WaitReturnsAtOnce(d) == TRUE

\* wg.Wait() returns once every worker has called wg.Done()
WaitReturns(d) == d.wg = 0

\* lines 127-128: wg.Add(1) and go func(batch)
Spawn ==
    /\ dispatch.pc = "loop"
    /\ dispatch.next <= Len(dispatch.batches)
    /\ dispatch' = [dispatch EXCEPT !.wg = @ + 1,
                                    !.worker[dispatch.next] = "started",
                                    !.next = @ + 1]
    /\ UNCHANGED <<buildVars, batching, resolver, server>>

\* lines 130-141: the worker of batch k makes its provider call
CallProvider(k) ==
    /\ dispatch.worker[k] = "started"
    /\ \E kind \in ProviderKinds :
         dispatch' = [dispatch EXCEPT
                         !.worker[k] = "called",
                         !.calls[k] = @ + 1,
                         !.ctx[k] = "Background",
                         !.output[k] = ProviderCall(
                             BatchNamesOf(dispatch.kind, dispatch.batches[k]), k, kind)]
    /\ UNCHANGED <<buildVars, batching, resolver, server>>

\* lines 139 and 142: the result, error or synonyms, goes to the buffered channel
SendResult(k) ==
    /\ dispatch.worker[k] = "called"
    /\ ~dispatch.closed
    /\ Len(dispatch.resultsChan) < ResultsChanCap(dispatch.batches)
    /\ dispatch' = [dispatch EXCEPT
                       !.worker[k] = "sent",
                       !.sent[k] = @ + 1,
                       !.resultsChan = Append(@, dispatch.output[k])]
    /\ UNCHANGED <<buildVars, batching, resolver, server>>

\* line 129: the deferred wg.Done()
WorkerDone(k) ==
    /\ dispatch.worker[k] = "sent"
    /\ dispatch' = [dispatch EXCEPT !.worker[k] = "done", !.wg = @ - 1]
    /\ UNCHANGED <<buildVars, batching, resolver, server>>

\* the caller gives up the build while the dispatch runs; GetMetricSynonyms and
\* GetLabelSynonyms (lines 112, 174) take no context and no channel, so nothing
\* of the dispatch hears of it
Abandon ==
    /\ dispatch.pc = "loop"
    /\ ~dispatch.abandoned
    /\ dispatch' = [dispatch EXCEPT !.abandoned = TRUE]
    /\ UNCHANGED <<buildVars, batching, resolver, server>>

\* lines 146-147: wg.Wait() and close(resultsChan)
WaitAndClose ==
    /\ dispatch.pc = "loop"
    /\ dispatch.next > Len(dispatch.batches)
    /\ WaitReturns(dispatch)
    /\ dispatch' = [dispatch EXCEPT !.pc = "collect", !.closed = TRUE]
    /\ UNCHANGED <<buildVars, batching, resolver, server>>

\* lines 149-170: drain the channel and return
CollectAndReturn ==
    /\ dispatch.pc = "collect"
    /\ dispatch' = [dispatch EXCEPT !.pc = "returned",
                                    !.ret = Consolidate(dispatch.resultsChan),
                                    !.resultsChan = <<>>]
    /\ UNCHANGED <<buildVars, batching, resolver, server>>

----------------------------------------------------------------------------
(* query_processing: ProcessUserQuery.  Match scores are counted in tenths. *)

sampleLimit == 5        \* getSampleValues stops after this many values

newMatchScore == 10      \* MatchScore 1.0 of a new LabelContextDetail
labelAgainScore == 5     \* += 0.5 when a label is named again
valueMatchScore == 2     \* += 0.2 when a value token matches

\* values of the candidate fields (interface{}): a string, a number, a
\* []interface{} list
JString(s) == [type |-> "string", val |-> s, items |-> <<>>]

JNumber == [type |-> "number", val |-> "7", items |-> <<>>]

JList(items) == [type |-> "list", val |-> "", items |-> items]

\* a Go []string put into the map as it is (LangChainClient.ProcessUserQuery)
JStrings(strs) ==
    [type |-> "strings", val |-> "", items |-> [i \in DOMAIN strs |-> JString(strs[i])]]

JAbsent == [type |-> "absent", val |-> "", items |-> <<>>]

CandidateFields == {"possible_metric_names", "possible_label_names", "possible_label_values"}

\* the map the LLM client returns: a field that is absent is no key of it
Candidates(metricField, labelField, valueField) ==
    LET all == [f \in CandidateFields |->
                   CASE f = "possible_metric_names" -> metricField
                     [] f = "possible_label_names" -> labelField
                     [] OTHER -> valueField]
    IN  [f \in {g \in CandidateFields : all[g] # JAbsent} |-> all[f]]

\* possibleMatches[field].([]interface{})
AsList(possibleMatches, field) ==
    IF field \in DOMAIN possibleMatches /\ possibleMatches[field].type = "list"
    THEN [ok |-> TRUE, items |-> possibleMatches[field].items]
    ELSE [ok |-> FALSE, items |-> <<>>]

\* the elements of a list the loops do not skip: token.(string)
StringTokens(items) ==
    LET strs == SelectSeq(items, LAMBDA e : e.type = "string")
    IN  [i \in 1..Len(strs) |-> strs[i].val]

containsAny(slice, str) ==
    \E i \in DOMAIN slice : slice[i].type = "string" /\ slice[i].val = str

\* the manners in which one call's range loops visit a Go map
IterationOrders == 0..(RotationBound + 1)

IterationOrder(S, o) ==
    CASE o = 0 -> Asc(S)
      [] o = 1 -> Reverse(Asc(S))
      [] OTHER -> Rotate(Asc(S), o - 1)

\* lines 39-50: the first values the range over valueSet visits
getSampleValues(valueSet, o) ==
    LET order == IterationOrder(valueSet, o)
    IN  SubSeq(order, 1, IF Len(order) < sampleLimit THEN Len(order) ELSE sampleLimit)

\* lines 121-123 and 182-184
AppendIfAbsent(values, v) ==
    IF \E i \in DOMAIN values : values[i] = v THEN values ELSE Append(values, v)

\* variant: a label the index names is recorded whatever the catalog says
MetricLabelTokenUnchecked(entry, metricName, labelTokenStr, maps, o) ==
    LET hits == IF labelTokenStr \in DOMAIN maps.labelMap.Map
                THEN maps.labelMap.Map[labelTokenStr] ELSE {}
    IN  [l \in DOMAIN entry \cup hits |->
            IF l \notin hits THEN entry[l]
            ELSE IF l \in DOMAIN entry
                 THEN [entry[l] EXCEPT !.MatchScore = @ + labelAgainScore]
                 ELSE [MatchScore |-> newMatchScore, Values |-> <<>>]]

\* lines 71-97: one label token under metricName
MetricLabelToken(entry, metricName, labelTokenStr, maps, o) ==
    LET hits == IF /\ labelTokenStr \in DOMAIN maps.labelMap.Map
                   /\ metricName \in DOMAIN maps.metricLabelMap
                THEN maps.labelMap.Map[labelTokenStr]
                         \cap DOMAIN maps.metricLabelMap[metricName]
                ELSE {}
    IN  [l \in DOMAIN entry \cup hits |->
            IF l \notin hits THEN entry[l]
            ELSE IF l \in DOMAIN entry
                 THEN [entry[l] EXCEPT !.MatchScore = @ + labelAgainScore]
                 ELSE [MatchScore |-> newMatchScore,
                       Values |-> getSampleValues(maps.metricLabelMap[metricName][l], o)]]

\* lines 69-99: the label tokens in order
RECURSIVE MetricLabelTokens(_, _, _, _, _, _)
MetricLabelTokens(entry, metricName, toks, i, maps, o) ==
    IF i > Len(toks) THEN entry
    ELSE MetricLabelTokens(MetricLabelToken(entry, metricName, toks[i], maps, o),
                           metricName, toks, i + 1, maps, o)

\* lines 103-129: one value token under metricName
MetricValueToken(entry, metricName, lvTokenStr, maps) ==
    LET hits == IF metricName \in DOMAIN maps.metricLabelMap
                THEN {l \in DOMAIN maps.metricLabelMap[metricName] :
                         lvTokenStr \in maps.metricLabelMap[metricName][l]}
                ELSE {}
    IN  [l \in DOMAIN entry \cup hits |->
            IF l \notin hits THEN entry[l]
            ELSE IF l \in DOMAIN entry
                 THEN [MatchScore |-> entry[l].MatchScore + valueMatchScore,
                       Values |-> AppendIfAbsent(entry[l].Values, lvTokenStr)]
                 ELSE [MatchScore |-> newMatchScore, Values |-> <<lvTokenStr>>]]

\* lines 101-131: the value tokens in order
RECURSIVE MetricValueTokens(_, _, _, _, _)
MetricValueTokens(entry, metricName, toks, i, maps) ==
    IF i > Len(toks) THEN entry
    ELSE MetricValueTokens(MetricValueToken(entry, metricName, toks[i], maps),
                           metricName, toks, i + 1, maps)

\* lines 63-131: metricName was found under a metric token
VisitMetric(entry, metricName, possibleMatches, maps, o) ==
    LET labelTokens == AsList(possibleMatches, "possible_label_names")
        labelValueTokens == AsList(possibleMatches, "possible_label_values")
        named == IF labelTokens.ok
                 THEN MetricLabelTokens(entry, metricName,
                                        StringTokens(labelTokens.items), 1, maps, o)
                 ELSE entry
    IN  IF labelValueTokens.ok
        THEN MetricValueTokens(named, metricName,
                               StringTokens(labelValueTokens.items), 1, maps)
        ELSE named

\* lines 55-134: the metric tokens in order
RECURSIVE MetricTokens(_, _, _, _, _, _)
MetricTokens(relevantMetrics, toks, i, possibleMatches, maps, o) ==
    IF i > Len(toks) THEN relevantMetrics
    ELSE LET actualMetricNames ==
                 IF toks[i] \in DOMAIN maps.metricMap.Map
                 THEN maps.metricMap.Map[toks[i]] ELSE {}
             visited ==
                 [m \in DOMAIN relevantMetrics \cup actualMetricNames |->
                     IF m \notin actualMetricNames THEN relevantMetrics[m]
                     ELSE VisitMetric(IF m \in DOMAIN relevantMetrics
                                      THEN relevantMetrics[m] ELSE <<>>,
                                      m, possibleMatches, maps, o)]
         IN  MetricTokens(visited, toks, i + 1, possibleMatches, maps, o)

\* variant: a label named again is scored like a new one
LabelTokenScoredAnew(relevantLabels, labelTokenStr, maps, o) ==
    LET hits == IF labelTokenStr \in DOMAIN maps.labelMap.Map
                THEN maps.labelMap.Map[labelTokenStr] ELSE {}
    IN  [l \in DOMAIN relevantLabels \cup hits |->
            IF l \notin hits THEN relevantLabels[l]
            ELSE IF l \in DOMAIN relevantLabels
                 THEN [relevantLabels[l] EXCEPT !.MatchScore = @ + newMatchScore]
                 ELSE [MatchScore |-> newMatchScore,
                       Values |-> IF l \in DOMAIN maps.labelValueMap
                                  THEN getSampleValues(maps.labelValueMap[l], o)
                                  ELSE <<>>]]

\* lines 141-163: one label token on its own
LabelToken(relevantLabels, labelTokenStr, maps, o) ==
    LET hits == IF labelTokenStr \in DOMAIN maps.labelMap.Map
                THEN maps.labelMap.Map[labelTokenStr] ELSE {}
    IN  [l \in DOMAIN relevantLabels \cup hits |->
            IF l \notin hits THEN relevantLabels[l]
            ELSE IF l \in DOMAIN relevantLabels
                 THEN [relevantLabels[l] EXCEPT !.MatchScore = @ + labelAgainScore]
                 ELSE [MatchScore |-> newMatchScore,
                       Values |-> IF l \in DOMAIN maps.labelValueMap
                                  THEN getSampleValues(maps.labelValueMap[l], o)
                                  ELSE <<>>]]

RECURSIVE LabelTokens(_, _, _, _, _)
LabelTokens(relevantLabels, toks, i, maps, o) ==
    IF i > Len(toks) THEN relevantLabels
    ELSE LabelTokens(LabelToken(relevantLabels, toks[i], maps, o), toks, i + 1, maps, o)

\* lines 168-189: one value token on its own
ValueToken(relevantLabels, lvTokenStr, maps) ==
    LET hits == {l \in DOMAIN maps.labelValueMap : lvTokenStr \in maps.labelValueMap[l]}
    IN  [l \in DOMAIN relevantLabels \cup hits |->
            IF l \notin hits THEN relevantLabels[l]
            ELSE IF l \in DOMAIN relevantLabels
                 THEN [MatchScore |-> relevantLabels[l].MatchScore + valueMatchScore,
                       Values |-> AppendIfAbsent(relevantLabels[l].Values, lvTokenStr)]
                 ELSE [MatchScore |-> newMatchScore, Values |-> <<lvTokenStr>>]]

RECURSIVE ValueTokens(_, _, _, _)
ValueTokens(relevantLabels, toks, i, maps) ==
    IF i > Len(toks) THEN relevantLabels
    ELSE ValueTokens(ValueToken(relevantLabels, toks[i], maps), toks, i + 1, maps)

\* json.Unmarshal of a history key into []string, for the keys of the tables below
UnmarshalKey(key) ==
    CASE key = KeyCpuTag -> [ok |-> TRUE, keyParts |-> <<"cpu", "tag">>]
      [] key = KeyCpu -> [ok |-> TRUE, keyParts |-> <<"cpu">>]
      [] key = KeyDiskEnv -> [ok |-> TRUE, keyParts |-> <<"disk", "env">>]
      [] OTHER -> [ok |-> FALSE, keyParts |-> <<>>]

\* json.Unmarshal of a history value into map[string]interface{}
UnmarshalValue(value) ==
    CASE value = ValueJobX -> [ok |-> TRUE, valueMap |-> ("Go_threads" :> ("Job" :> "x"))]
      [] value = ValueL01A ->
            [ok |-> TRUE, valueMap |-> ("Go_threads" :> ("l01" :> "a")) @@ ("m01" :> ("l01" :> "a"))]
      [] OTHER -> [ok |-> FALSE, valueMap |-> <<>>]

\* variant: every value is decoded, whatever its key
RECURSIVE HistoryEntriesEager(_, _, _, _, _, _)
HistoryEntriesEager(relevantHistory, keys, i, nlpToMetricMap, possibleMetricNames, possibleLabelNames) ==
    IF i > Len(keys) THEN [err |-> NoErr, relevantHistory |-> relevantHistory]
    ELSE LET k == UnmarshalKey(keys[i])
             v == UnmarshalValue(nlpToMetricMap[keys[i]])
         IN  IF ~k.ok THEN [err |-> Err("unmarshal key", 0), relevantHistory |-> <<>>]
             ELSE IF ~v.ok
                  THEN [err |-> Err("unmarshal value", 0), relevantHistory |-> <<>>]
             ELSE IF /\ Len(k.keyParts) = 2
                     /\ containsAny(possibleMetricNames, k.keyParts[1])
                     /\ containsAny(possibleLabelNames, k.keyParts[2])
                  THEN HistoryEntriesEager(
                           [m \in DOMAIN relevantHistory \cup DOMAIN v.valueMap |->
                               IF m \in DOMAIN v.valueMap THEN v.valueMap[m]
                               ELSE relevantHistory[m]],
                           keys, i + 1, nlpToMetricMap, possibleMetricNames,
                           possibleLabelNames)
                  ELSE HistoryEntriesEager(relevantHistory, keys, i + 1, nlpToMetricMap,
                                           possibleMetricNames, possibleLabelNames)

\* lines 198-213: the entries of the history table in the order the range visits them
RECURSIVE HistoryEntries(_, _, _, _, _, _)
HistoryEntries(relevantHistory, keys, i, nlpToMetricMap, possibleMetricNames, possibleLabelNames) ==
    IF i > Len(keys) THEN [err |-> NoErr, relevantHistory |-> relevantHistory]
    ELSE LET k == UnmarshalKey(keys[i])
         IN  IF ~k.ok THEN [err |-> Err("unmarshal key", 0), relevantHistory |-> <<>>]
             ELSE IF /\ Len(k.keyParts) = 2
                     /\ containsAny(possibleMetricNames, k.keyParts[1])
                     /\ containsAny(possibleLabelNames, k.keyParts[2])
                  THEN LET v == UnmarshalValue(nlpToMetricMap[keys[i]])
                       IN  IF ~v.ok
                           THEN [err |-> Err("unmarshal value", 0),
                                 relevantHistory |-> <<>>]
                           ELSE HistoryEntries(
                                    [m \in DOMAIN relevantHistory \cup DOMAIN v.valueMap |->
                                        IF m \in DOMAIN v.valueMap THEN v.valueMap[m]
                                        ELSE relevantHistory[m]],
                                    keys, i + 1, nlpToMetricMap, possibleMetricNames,
                                    possibleLabelNames)
                  ELSE HistoryEntries(relevantHistory, keys, i + 1, nlpToMetricMap,
                                      possibleMetricNames, possibleLabelNames)

\* what ProcessUserQuery returns with an error: four nils and the error
QueryError(e) ==
    [err |-> e, possibleMatches |-> <<>>, relevantMetrics |-> <<>>,
     relevantLabels |-> <<>>, relevantHistory |-> <<>>]

\* lines 24-222.  client is what the LLM client returns for the user query, maps
\* the two indexes and the two catalogs, o the manner of this call's map ranges.
ProcessUserQuery(client, maps, nlpToMetricMap, o) ==
    IF client.err # NoErr THEN QueryError(client.err)
    ELSE LET possibleMatches == client.possibleMatches
             metricTokens == AsList(possibleMatches, "possible_metric_names")
             labelTokens == AsList(possibleMatches, "possible_label_names")
             labelValueTokens == AsList(possibleMatches, "possible_label_values")
             relevantMetrics ==
                 IF metricTokens.ok
                 THEN MetricTokens(<<>>, StringTokens(metricTokens.items), 1,
                                   possibleMatches, maps, o)
                 ELSE <<>>
             named ==
                 IF labelTokens.ok
                 THEN LabelTokens(<<>>, StringTokens(labelTokens.items), 1, maps, o)
                 ELSE <<>>
             relevantLabels ==
                 IF labelValueTokens.ok
                 THEN ValueTokens(named, StringTokens(labelValueTokens.items), 1, maps)
                 ELSE named
             history ==
                 IF metricTokens.ok /\ labelTokens.ok
                 THEN HistoryEntries(<<>>, IterationOrder(DOMAIN nlpToMetricMap, o), 1,
                                     nlpToMetricMap, metricTokens.items, labelTokens.items)
                 ELSE [err |-> NoErr, relevantHistory |-> <<>>]
         IN  IF history.err # NoErr THEN QueryError(history.err)
             ELSE [err |-> NoErr, possibleMatches |-> possibleMatches,
                   relevantMetrics |-> relevantMetrics,
                   relevantLabels |-> relevantLabels,
                   relevantHistory |-> history.relevantHistory]

----------------------------------------------------------------------------
(* ProcessUserQuery called twice on the same answer of the LLM client and    *)
(* the same indexes and catalogs                                             *)

\* the values the store holds for label Job
ValuePool == <<"v1", "v2", "v3", "v4", "v5", "v6", "v7", "v8">>

\* indexes as a build leaves them
ResolverMetricMap ==
    MergeSynonyms(EmptyIndex, [n \in {"Go_threads", "m01", "m02"} |-> SynonymsOf(n)])

ResolverLabelMap ==
    MergeSynonyms(EmptyIndex, [n \in {"Job", "l01"} |-> SynonymsOf(n)])

\* catalogs as updateMetricLabelMapAndLabelValueMap leaves them for a store
\* with n values of Job; m02 has no series
ResolverCatalogs(n) ==
    AddSeries([metricLabelMap |-> <<>>, labelValueMap |-> <<>>],
              {[name |-> "Go_threads", labels |-> ("Job" :> ValuePool[i]) @@ ("l01" :> "a")] :
                  i \in 1..n}
              \cup {[name |-> "m01", labels |-> ("l01" :> "b")]})

ResolverMaps ==
    {[metricMap |-> ResolverMetricMap, labelMap |-> ResolverLabelMap,
      metricLabelMap |-> ResolverCatalogs(n).metricLabelMap,
      labelValueMap |-> ResolverCatalogs(n).labelValueMap] : n \in {2, MaxValues}}

\* possible_metric_names as the LLM may answer it
MetricFields ==
    {JAbsent, JStrings(<<"cpu">>), JList(<<>>), JList(<<JString("cpu")>>),
     JList(<<JString("cpu"), JString("threads")>>),
     JList(<<JNumber, JString("threads")>>), JList(<<JString("zzz")>>),
     JList(<<JString("CPU")>>)}

LabelFields ==
    {JAbsent, JStrings(<<"tag">>), JList(<<>>), JList(<<JString("tag")>>),
     JList(<<JString("job"), JString("tag")>>),
     JList(<<JNumber, JString("job")>>), JList(<<JString("zzz")>>)}

ValueFields ==
    {JString("a"), JStrings(<<"a">>), JList(<<>>), JList(<<JString("a")>>),
     JList(<<JString(ValuePool[MaxValues]), JString("a")>>),
     JList([i \in 1..MaxValues |-> JString(ValuePool[i])]),
     JList(<<JNumber, JString("b")>>), JList(<<JString("zzz")>>)}

\* what client.ProcessUserQuery returns: an error, or the candidate fields
ClientAnswers ==
    {[err |-> Err("llm", 0), possibleMatches |-> <<>>]}
    \cup {[err |-> NoErr, possibleMatches |-> Candidates(m, l, v)] :
             m \in MetricFields, l \in LabelFields, v \in ValueFields}

\* history tables (nlp_to_metric_map.json is not written by the program)
Histories ==
    {<<>>,
     KeyCpuTag :> ValueJobX,
     (KeyCpuTag :> ValueJobX) @@ (KeyDiskEnv :> ValueL01A),
     KeyCpuTag :> ValueNotJSON,
     KeyDiskEnv :> ValueNotJSON,
     KeyCpu :> ValueNotJSON,
     KeyNotJSON :> ValueJobX}

NoCall == [called |-> FALSE, nlpToMetricMap |-> <<>>, out |-> QueryError(NoErr)]

IdleResolver ==
    [client |-> [err |-> NoErr, possibleMatches |-> <<>>],
     maps |-> [metricMap |-> EmptyIndex, labelMap |-> EmptyIndex,
               metricLabelMap |-> <<>>, labelValueMap |-> <<>>],
     first |-> NoCall, second |-> NoCall]

\* one call with some history table; the second call follows the first
QueryFirst ==
    /\ ~resolver.first.called
    /\ \E h \in Histories, o \in IterationOrders :
         resolver' = [resolver EXCEPT !.first =
             [called |-> TRUE, nlpToMetricMap |-> h,
              out |-> ProcessUserQuery(resolver.client, resolver.maps, h, o)]]
    /\ UNCHANGED <<buildVars, batching, dispatch, server>>

QuerySecond ==
    /\ resolver.first.called
    /\ ~resolver.second.called
    /\ \E h \in Histories, o \in IterationOrders :
         resolver' = [resolver EXCEPT !.second =
             [called |-> TRUE, nlpToMetricMap |-> h,
              out |-> ProcessUserQuery(resolver.client, resolver.maps, h, o)]]
    /\ UNCHANGED <<buildVars, batching, dispatch, server>>

----------------------------------------------------------------------------
(* main (lines 103-138) and the PromQL server.  main is caller 1 of           *)
(* BuildInformationStructure; caller 2 calls it on the same InfoStructure     *)
(* while the server runs.                                                     *)

Handlers == 1..MaxHandlers

NoMaps ==
    [metricMap |-> EmptyIndex, labelMap |-> EmptyIndex,
     metricLabelMap |-> <<>>, labelValueMap |-> <<>>, nlpToMetricMap |-> <<>>]

IdleHandler ==
    [pc |-> "idle", client |-> [err |-> NoErr, possibleMatches |-> <<>>],
     began |-> 0, seen |-> NoMaps, out |-> QueryError(NoErr)]

\* maps: where the maps handed to NewPromQLServer live (0: not handed over yet)
IdleServer ==
    [pc |-> "main",
     maps |-> [MetricMap |-> 0, LabelMap |-> 0, MetricLabelMap |-> 0,
               LabelValueMap |-> 0, NlpToMetricMap |-> 0],
     handler |-> [h \in Handlers |-> IdleHandler]]

\* s.metricMap etc.: struct and map values copied from *infoBuilder.MetricMap
\* etc.; a copy shares the Go maps of the object it was copied from
ServerMaps ==
    IF server.pc = "main" THEN NoMaps
    ELSE [metricMap |-> frame[server.maps.MetricMap].obj.metricMap,
          labelMap |-> frame[server.maps.LabelMap].obj.labelMap,
          metricLabelMap |-> frame[server.maps.MetricLabelMap].obj.metricLabelMap,
          labelValueMap |-> frame[server.maps.LabelValueMap].obj.labelValueMap,
          nlpToMetricMap |-> frame[server.maps.NlpToMetricMap].obj.nlpToMetricMap]

\* what the LLM client answers to the requests
ServeAnswers ==
    {[err |-> NoErr,
      possibleMatches |-> Candidates(JList(<<JString("cpu")>>), JList(<<JString("tag")>>),
                                     JList(<<JString("a")>>))]}

\* main lines 109-113: the one build of main; an error ends the program
MainBuild ==
    /\ server.pc = "main"
    /\ numCalls = 0 \/ InFlight(1)
    /\ Build(1)

\* main lines 124-138: the maps are handed to the server, which starts
NewPromQLServer ==
    /\ server.pc = "main"
    /\ frame[1].pc = "idle"
    /\ frame[1].returned
    /\ frame[1].err = NoBuildErr
    /\ server' = [server EXCEPT !.pc = "serving", !.maps = is]
    /\ UNCHANGED <<buildVars, batching, dispatch, resolver>>

\* BuildInformationStructure called once more, by another goroutine (caller 2),
\* while the server runs
Rebuild ==
    /\ server.pc = "serving"
    /\ numCalls = 1 \/ InFlight(2)
    /\ Build(2)

\* handlers.go lines 14-26: a request arrives and ProcessUserQuery is called
\* with the server's maps; the LLM client answers
HandleQueryCall(h) ==
    /\ server.pc = "serving"
    /\ server.handler[h].pc = "idle"
    /\ \A g \in 1..(h - 1) : server.handler[g].pc # "idle"
    /\ \E client \in ServeAnswers :
         server' = [server EXCEPT !.handler[h] =
             [IdleHandler EXCEPT !.pc = "called", !.client = client,
                                 !.began = numCalls, !.seen = ServerMaps]]
    /\ UNCHANGED <<buildVars, batching, dispatch, resolver>>

\* part_000 lines 34-222: the maps are read and the call returns
HandleQueryReturn(h) ==
    /\ server.handler[h].pc = "called"
    /\ \E o \in IterationOrders :
         server' = [server EXCEPT
             !.handler[h].pc = "done",
             !.handler[h].out =
                 ProcessUserQuery(server.handler[h].client, ServerMaps,
                                  ServerMaps.nlpToMetricMap, o)]
    /\ UNCHANGED <<buildVars, batching, dispatch, resolver>>

----------------------------------------------------------------------------
(* Specifications *)

InitQuery == resolver = IdleResolver /\ server = IdleServer

Init == InitBuild /\ batching = IdleBatching /\ dispatch = IdleDispatch /\ InitQuery

\* concurrent callers of BuildInformationStructure on one InfoStructure
Next == \E p \in Callers : Build(p)

Spec == Init /\ [][Next]_vars

\* one caller: the calls follow one another
NextSeq == Build(1)

SpecSeq == Init /\ [][NextSeq]_vars

\* the batching step for every offered AllNames and live list
InitBatch ==
    /\ InitBuild
    /\ InitQuery
    /\ dispatch = IdleDispatch
    /\ \E known \in BatchKnownSets, live \in BatchLiveLists :
         batching = [IdleBatching EXCEPT !.known = known, !.live = live]

NextBatch == BatchMetricNames \/ BatchLabelNames

SpecBatch == InitBatch /\ [][NextBatch]_vars

\* one dispatch for every offered batch list
InitDispatch ==
    /\ InitBuild
    /\ InitQuery
    /\ batching = IdleBatching
    /\ \E in \in DispatchInputs : dispatch = CallDispatch(in)

NextDispatch ==
    \/ Spawn
    \/ \E k \in DOMAIN dispatch.batches : CallProvider(k)
    \/ \E k \in DOMAIN dispatch.batches : SendResult(k)
    \/ \E k \in DOMAIN dispatch.batches : WorkerDone(k)
    \/ Abandon
    \/ WaitAndClose
    \/ CollectAndReturn

SpecDispatch == InitDispatch /\ [][NextDispatch]_vars

\* the Go scheduler runs every goroutine that can run, and every provider call
\* returns: a step that can be taken is taken in the end
SpecDispatchLive == SpecDispatch /\ WF_vars(NextDispatch)

\* two ProcessUserQuery calls for every offered answer of the client and every
\* offered set of maps
InitResolve ==
    /\ InitBuild
    /\ batching = IdleBatching
    /\ dispatch = IdleDispatch
    /\ server = IdleServer
    /\ \E client \in ClientAnswers, maps \in ResolverMaps :
         resolver = [IdleResolver EXCEPT !.client = client, !.maps = maps]

NextResolve == QueryFirst \/ QuerySecond

SpecResolve == InitResolve /\ [][NextResolve]_vars

\* main builds once and serves; other goroutines rebuild while it serves
NextServe ==
    \/ MainBuild
    \/ NewPromQLServer
    \/ Rebuild
    \/ \E h \in Handlers : HandleQueryCall(h)
    \/ \E h \in Handlers : HandleQueryReturn(h)

SpecServe == Init /\ [][NextServe]_vars

----------------------------------------------------------------------------
(* Properties of BuildInformationStructure *)

ReturnedError(p) == frame[p].pc = "idle" /\ frame[p].returned /\ frame[p].err # NoBuildErr

\* every name and every (token, name) pair of index b is in index a
Subsumes(a, b) ==
    /\ b.AllNames \subseteq a.AllNames
    /\ \A t \in DOMAIN b.Map : t \in DOMAIN a.Map /\ b.Map[t] \subseteq a.Map[t]

MapNamesKnown(index) == \A t \in DOMAIN index.Map : index.Map[t] \subseteq index.AllNames

NamesOfIndex(index) == index.AllNames \cup UNION {index.Map[t] : t \in DOMAIN index.Map}

\* the names of the batches a dispatch handed to the provider
SentNames(r) ==
    UNION {DOMAIN r.metric[k] : k \in DOMAIN r.metric}
    \cup UNION {Range(r.label[k]) : k \in DOMAIN r.label}

FailedResults(p) == {i \in DOMAIN received[p].chan : received[p].chan[i].err # NoErr}

FirstFailed(p) == CHOOSE i \in FailedResults(p) : \A j \in FailedResults(p) : i <= j

\* the names of the batches of caller p's dispatch whose result is an error
FailedBatchNames(p) ==
    UNION {IF received[p].metric # <<>>
           THEN DOMAIN received[p].metric[received[p].chan[i].err.batch]
           ELSE Range(received[p].label[received[p].chan[i].err.batch]) :
           i \in FailedResults(p)}

\* C1: at most one BuildInformationStructure call is in flight on an
\* InfoStructure: two calls are never both running with their load done,
\* so a second call does not load, update or save before the first returned.
C1_OneBuildInFlight ==
    \A p, q \in Callers :
        p # q => ~(InFlight(p) /\ InFlight(q) /\ frame[p].stage > 1 /\ frame[q].stage > 1)

\* C2: a build that has returned an error has left all five persisted
\* documents exactly as they were when it started.
C2_FailedBuildKeepsDocuments ==
    \A p \in Callers : ReturnedError(p) => disk = hist.diskAtStart[p]

\* C3: in the metric index and in the label index, in memory and as
\* persisted, every name in the name set of any token of Map is in AllNames.
C3_MapNamesKnown ==
    /\ \A p \in Callers : MapNamesKnown(frame[p].obj.metricMap)
                          /\ MapNamesKnown(frame[p].obj.labelMap)
    /\ MapNamesKnown(convertJSONToMetricMap(disk["metric_map"].data))
    /\ MapNamesKnown(convertJSONToLabelMap(disk["label_map"].data))

C3_Witness ==
    /\ numCalls >= 2
    /\ frame[1].pc = "defer"
    /\ frame[1].stage = 6
    /\ hist.committed.labelMap.AllNames # {}
    /\ Cardinality(MetricMapOf.AllNames) > Cardinality(hist.committed.metricMap.AllNames)
    /\ \E t \in DOMAIN MetricMapOf.Map : Cardinality(MetricMapOf.Map[t]) >= 2

\* C4 as stated: every name of AllNames and every (token, name) pair of Map
\* that the index held when one call returned is in the index the next call
\* returns with, whether the calls succeed or fail.
C4_IndexOnlyGrows ==
    frame[1].pc = "defer" =>
        /\ Subsumes(MetricMapOf, hist.lastIndex.metricMap)
        /\ Subsumes(LabelMapOf, hist.lastIndex.labelMap)

\* C4 amended: every name of AllNames and every (token, name) pair of Map that
\* the index held when a call returned success is in the index at every later
\* moment, through later calls that succeed or fail.
C4_CommittedIndexKept ==
    /\ Subsumes(MetricMapOf, hist.committed.metricMap)
    /\ Subsumes(LabelMapOf, hist.committed.labelMap)

C4_Witness ==
    /\ numCalls >= 2
    /\ hist.committed.metricMap.AllNames # {}
    /\ hist.committed.labelMap.AllNames # {}
    /\ frame[1].pc = "defer"
    /\ frame[1].err # NoBuildErr
    /\ frame[1].stage = 4
    /\ received[1].metric # <<>>

\* C5: every batch handed to the provider holds only names of the live list
\* that are not in AllNames, and when every live name is in AllNames the
\* stage makes no provider call.
C5_OnlyNewNamesSent ==
    [][\A p \in Callers :
          /\ received'[p].metric # <<>> =>
                SentNames(received'[p]) \subseteq
                    Range(frame[p].allMetricNames) \ MetricMapOf.AllNames
          /\ received'[p].label # <<>> =>
                SentNames(received'[p]) \subseteq
                    Range(frame[p].allLabelNames) \ LabelMapOf.AllNames
          /\ ( /\ AtStage(p, 4) /\ frame'[p] # frame[p]
                /\ Range(frame[p].allMetricNames) \subseteq MetricMapOf.AllNames )
                => (received'[p] = NoBatches /\ frame'[p].stage = frame[p].stage + 1)
          /\ ( /\ AtStage(p, 6) /\ frame'[p] # frame[p]
                /\ Range(frame[p].allLabelNames) \subseteq LabelMapOf.AllNames )
                => (received'[p] = NoBatches /\ frame'[p].stage = frame[p].stage + 1)]_vars

C5_Witness ==
    /\ numCalls >= 2
    /\ received[1].metric # <<>>
    /\ SentNames(received[1]) # {}
    /\ SentNames(received[1]) # Range(frame[1].allMetricNames)
    /\ hist.committed.metricMap.AllNames # {}

\* C6: a successful build that follows a successful build with the same live
\* metric and label lists leaves both indexes as the first one left them.
C6_RebuildIdempotent ==
    ( /\ frame[1].pc = "defer"
      /\ frame[1].err = NoBuildErr
      /\ hist.lastOk
      /\ hist.lastLive = [metrics |-> frame[1].allMetricNames,
                          labels |-> frame[1].allLabelNames] )
    => /\ MetricMapOf = hist.committed.metricMap
       /\ LabelMapOf = hist.committed.labelMap

\* C10: when a batch fails, the stage fails and the build returns the first
\* error taken from the result channel; no name of a failed batch is in
\* AllNames or Map; and the next build that reaches the stage sends the
\* names of the failed batches that are still live to the provider again.
C10_FirstErrorNoMergeRetry ==
    /\ [](\A p \in Callers :
            FailedResults(p) # {} =>
                /\ frame[p].pc = "defer"
                /\ frame[p].stage \in {4, 6}
                /\ frame[p].err =
                       BuildErr(frame[p].stage, received[p].chan[FirstFailed(p)].err)
                /\ buildStatus.Error = received[p].chan[FirstFailed(p)].err
                /\ FailedBatchNames(p) \cap
                       NamesOfIndex(IF frame[p].stage = 4 THEN MetricMapOf ELSE LabelMapOf) = {})
    /\ [][\A p \in Callers :
            /\ (AtStage(p, 4) /\ frame'[p] # frame[p]) =>
                  (hist.retry.metric \cap Range(frame[p].allMetricNames))
                      \subseteq SentNames(received'[p])
            /\ (AtStage(p, 6) /\ frame'[p] # frame[p]) =>
                  (hist.retry.label \cap Range(frame[p].allLabelNames))
                      \subseteq SentNames(received'[p])]_vars

C10_Witness ==
    /\ numCalls >= 2
    /\ hist.retry.again # {}
    /\ Len(received[1].chan) >= 2
    /\ FailedResults(1) # {}
    /\ FirstFailed(1) > 1

\* C26: a synonym-update stage in which a batch failed merges nothing: both
\* indexes, Map and AllNames, are after the stage what they were before it,
\* whatever the other batches of the stage returned.
C26_FailedStageMergesNothing ==
    [][\A p \in Callers :
          (/\ AtStage(p, 4) \/ AtStage(p, 6)
           /\ \E i \in DOMAIN received'[p].chan : received'[p].chan[i].err # NoErr) =>
              /\ frame'[p].pc = "defer"
              /\ MetricMapOf' = MetricMapOf
              /\ LabelMapOf' = LabelMapOf]_vars

\* the metric stage of a second build has failed: one batch returned synonyms,
\* the other an error, and the index still holds the names of the first build
C26_Witness ==
    /\ numCalls = 2
    /\ frame[1].pc = "defer"
    /\ frame[1].stage = 4
    /\ Len(received[1].chan) = 2
    /\ \E i, j \in DOMAIN received[1].chan :
          /\ received[1].chan[i].err # NoErr
          /\ received[1].chan[j].err = NoErr
          /\ DOMAIN received[1].chan[j].synonyms # {}
    /\ MetricMapOf.AllNames # {}
    /\ MetricMapOf = hist.committed.metricMap

\* C27: when a synonym-update stage has succeeded, every name of the live list
\* is in AllNames, and AllNames holds no name the store does not have.
C27_AllNamesAreLiveNames ==
    \A p \in Callers :
        /\ AtStage(p, 5) =>
              /\ Range(frame[p].allMetricNames) \subseteq MetricMapOf.AllNames
              /\ MetricMapOf.AllNames \subseteq Range(MetricNames)
        /\ AtStage(p, 7) =>
              /\ Range(frame[p].allLabelNames) \subseteq LabelMapOf.AllNames
              /\ LabelMapOf.AllNames \subseteq Range(LabelNames)

\* the catalog refresh of caller p is over: it completed, or a query failed
RefreshOver(p) ==
    \/ frame[p].pc = "run" /\ frame[p].stage = 8
    \/ frame[p].pc = "defer" /\ frame[p].stage \in {7, 8}

\* C30: after a catalog refresh every value recorded for a label under a metric
\* is recorded for that label in the label-value catalog.
C30_CatalogsAgree ==
    \A p \in Callers :
        RefreshOver(p) =>
            LET mlm == frame[is.MetricLabelMap].obj.metricLabelMap
                lvm == frame[is.LabelValueMap].obj.labelValueMap
            IN  \A m \in DOMAIN mlm :
                    \A l \in DOMAIN mlm[m] :
                        /\ l \in DOMAIN lvm
                        /\ mlm[m][l] \subseteq lvm[l]

\* the maps LoadInfoStructure returns from the documents that
\* SaveInfoStructure writes for the maps obj
SavedAndLoaded(obj) ==
    LET s == SaveInfoStructure(disk, obj, 0)
        l == LoadInfoStructure(s.disk, FALSE)
    IN  [err |-> IF s.err # NoErr THEN s.err ELSE l.err,
         obj |-> [metricMap |-> l.metricMap, labelMap |-> l.labelMap,
                  metricLabelMap |-> l.metricLabelMap,
                  labelValueMap |-> l.labelValueMap,
                  nlpToMetricMap |-> l.nlpToMetricMap]]

\* C22: the maps loaded from the documents a save has written are the maps
\* that were saved.  This holds for the maps a caller holds at any point of a
\* build, and in the run: the load of a build that follows a successful build
\* returns the maps that build held when it saved.
C22_SaveLoadRoundTrip ==
    /\ [](\A p \in Callers :
             /\ SavedAndLoaded(frame[p].obj).err = NoErr
             /\ SavedAndLoaded(frame[p].obj).obj = frame[p].obj)
    /\ [][AtStage(1, 1) /\ AtStage(1, 2)' /\ hist.lastOk =>
             frame'[1].obj = frame[1].obj]_vars

\* the second build has loaded what the first, successful build saved: an index
\* with a token of two names and both catalogs with values
C22_Witness ==
    /\ numCalls = 2
    /\ AtStage(1, 2)
    /\ hist.lastOk
    /\ \E t \in DOMAIN frame[1].obj.metricMap.Map :
          Cardinality(frame[1].obj.metricMap.Map[t]) >= 2
    /\ frame[1].obj.labelMap.AllNames # {}
    /\ \E m \in DOMAIN frame[1].obj.metricLabelMap :
          \E l \in DOMAIN frame[1].obj.metricLabelMap[m] :
              frame[1].obj.metricLabelMap[m][l] # {}
    /\ \E l \in DOMAIN frame[1].obj.labelValueMap : frame[1].obj.labelValueMap[l] # {}

----------------------------------------------------------------------------
(* Properties of the batching step *)

BatchLen(kind, batch) == IF kind = "metric" THEN Cardinality(DOMAIN batch) ELSE Len(batch)

\* the live names that are not in AllNames
BatchNewNames == Range(batching.live) \ batching.known

BatchesOf(kind) == IF kind = "metric" THEN batching.metric ELSE batching.label

\* ceil(N / B) batches, each of 1..B names, all but the last of B names,
\* every new name in exactly one batch and nothing else in any batch
PartitionsNewNames(kind, size) ==
    LET batches == BatchesOf(kind)
        N == Cardinality(BatchNewNames)
    IN  /\ Len(batches) = (N + size - 1) \div size
        /\ \A k \in DOMAIN batches :
              /\ BatchLen(kind, batches[k]) >= 1
              /\ BatchLen(kind, batches[k]) <= size
              /\ k < Len(batches) => BatchLen(kind, batches[k]) = size
              /\ BatchLen(kind, batches[k]) = Cardinality(BatchNamesOf(kind, batches[k]))
              /\ BatchNamesOf(kind, batches[k]) \subseteq BatchNewNames
        /\ \A n \in BatchNewNames :
              Cardinality({k \in DOMAIN batches : n \in BatchNamesOf(kind, batches[k])}) = 1

\* C7: for N new names and batch size 10 the metric stage and the label
\* stage each build exactly ceil(N / 10) batches, every batch non-empty and of
\* at most 10 names, all but the last of exactly 10, and every new name is
\* in exactly one batch.
C7_BatchesPartitionNewNames ==
    /\ "metric" \in batching.done => PartitionsNewNames("metric", metricBatchSize)
    /\ "label" \in batching.done => PartitionsNewNames("label", labelBatchSize)

C7_Witness ==
    /\ batching.done = {"metric", "label"}
    /\ Len(batching.metric) = 3
    /\ Len(batching.label) = 3
    /\ Len(batching.label[3]) < labelBatchSize
    /\ batching.live[1] # BatchPool[1]

\* C8: the names of batch k are the k-th ten of the new names in
\* lexicographic order, whatever the order of the live list and the
\* iteration order of the map.
C8_BatchesFollowSortedOrder ==
    LET sorted == Chunks(Asc(BatchNewNames), 1, metricBatchSize, <<>>, <<>>)
    IN  \A kind \in batching.done :
          /\ Len(BatchesOf(kind)) = Len(sorted)
          /\ \A k \in DOMAIN BatchesOf(kind) :
                BatchNamesOf(kind, BatchesOf(kind)[k]) = Range(sorted[k])

----------------------------------------------------------------------------
(* Properties of the dispatch *)

\* C9: every batch gets one worker and every worker makes exactly one provider
\* call and delivers exactly one result, whether other batches fail or not;
\* the results are collected and the function returns only after every
\* worker has delivered its result and finished.
C9_OneCallPerBatchAllDelivered ==
    /\ \A k \in DOMAIN dispatch.batches :
          /\ dispatch.calls[k] <= 1
          /\ dispatch.sent[k] <= 1
          /\ dispatch.worker[k] # "none" <=> k < dispatch.next
    /\ dispatch.pc \in {"collect", "returned"} =>
          \A k \in DOMAIN dispatch.batches :
              /\ dispatch.worker[k] = "done"
              /\ dispatch.calls[k] = 1
              /\ dispatch.sent[k] = 1
    /\ dispatch.pc = "collect" => Len(dispatch.resultsChan) = Len(dispatch.batches)

C9_Witness ==
    /\ dispatch.pc = "returned"
    /\ Len(dispatch.batches) = 3
    /\ dispatch.ret.err # NoErr
    /\ dispatch.output[1].err # NoErr
    /\ dispatch.output[2].err = NoErr
    /\ dispatch.output[3].err = NoErr

\* C11: when some batches succeed and another fails, the dispatcher returns the
\* merged synonyms of the successful batches together with the error.
C11_PartialResultsReturned ==
    dispatch.pc = "returned" /\ dispatch.ret.err # NoErr =>
        \A k \in DOMAIN dispatch.batches :
            dispatch.output[k].err = NoErr =>
                \A n \in DOMAIN dispatch.output[k].synonyms :
                    /\ n \in DOMAIN dispatch.ret.synonyms
                    /\ dispatch.ret.synonyms[n] = dispatch.output[k].synonyms[n]

\* C29: the dispatch returns, for no batch as for several and whatever the
\* provider calls return; a worker that has its result finds room in the
\* channel, which is still open; every worker has sent one result when the
\* results are collected, and the channel is closed then, so the range over it
\* ends.
C29_DispatchTerminates ==
    /\ <>(dispatch.pc = "returned")
    /\ [](\A k \in DOMAIN dispatch.batches :
             dispatch.worker[k] = "called" =>
                 /\ ~dispatch.closed
                 /\ Len(dispatch.resultsChan) < ResultsChanCap(dispatch.batches))
    /\ [](dispatch.pc \in {"collect", "returned"} =>
             /\ dispatch.closed
             /\ \A k \in DOMAIN dispatch.batches : dispatch.sent[k] = 1)

\* a dispatch of three batches has returned: the provider calls of two batches
\* failed, that of the third succeeded
C29_Witness ==
    /\ dispatch.pc = "returned"
    /\ Len(dispatch.batches) = 3
    /\ dispatch.output[1].err = NoErr
    /\ dispatch.output[2].err # NoErr
    /\ dispatch.output[3].err # NoErr
    /\ \A k \in DOMAIN dispatch.batches : dispatch.sent[k] = 1

\* C21: every provider call is made with a context that can be cancelled and
\* has a deadline, and once the caller has given up the build no worker makes
\* a provider call any more and the dispatch returns without the answers of
\* the workers that had not called yet.
C21_CallsCancellable ==
    /\ \A k \in DOMAIN dispatch.batches :
          dispatch.ctx[k] # "none" =>
              Cancellable(dispatch.ctx[k]) /\ HasDeadline(dispatch.ctx[k])
    /\ dispatch.abandoned /\ dispatch.pc = "returned" =>
          \A k \in DOMAIN dispatch.batches :
              dispatch.calls[k] = 1 => Cancellable(dispatch.ctx[k])

----------------------------------------------------------------------------
(* Properties of the build status *)

\* a step of the one caller that changes the stage the status names
StageStep ==
    \/ /\ frame[1].pc = "idle"
       /\ buildStatus' = [IsRunning |-> TRUE, ProgressStage |-> "Initializing",
                          Error |-> NoErr, EndTimeSet |-> FALSE]
    \/ /\ buildStatus.ProgressStage = "Initializing"
       /\ buildStatus' = [buildStatus EXCEPT !.ProgressStage = Stages[1]]
    \/ \E k \in 1..(Len(Stages) - 1) :
          /\ AtStage(1, k)
          /\ buildStatus.ProgressStage = Stages[k]
          /\ buildStatus' = [buildStatus EXCEPT !.ProgressStage = Stages[k + 1]]
          /\ AtStage(1, k + 1)'
          /\ frame'[1].err = NoBuildErr

\* C20: during one build the status names the stages in their fixed order, one
\* after the other; a stage is run only while the status names it, which it
\* does only after the stage before it succeeded; once the build has returned,
\* IsRunning is false, EndTime is set, and Error is set exactly when the build
\* returned an error.
C20_StatusMovesForward ==
    /\ [](/\ \A k \in DOMAIN Stages :
               AtStage(1, k) => /\ buildStatus.ProgressStage = Stages[k]
                                /\ buildStatus.IsRunning
                                /\ ~buildStatus.EndTimeSet
                                /\ buildStatus.Error = NoErr
          /\ frame[1].pc = "idle" /\ frame[1].returned =>
               /\ ~buildStatus.IsRunning
               /\ buildStatus.EndTimeSet
               /\ buildStatus.Error # NoErr <=> frame[1].err # NoBuildErr
               /\ frame[1].err # NoBuildErr =>
                      /\ buildStatus.Error = frame[1].err.cause
                      /\ buildStatus.ProgressStage = Stages[frame[1].err.stage])
    /\ [][buildStatus'.ProgressStage # buildStatus.ProgressStage => StageStep]_vars

\* the second build has failed in the label-index update
C20_Witness ==
    /\ numCalls = 2
    /\ frame[1].pc = "idle"
    /\ frame[1].returned
    /\ frame[1].err.stage = 6
    /\ buildStatus.ProgressStage = Stages[6]
    /\ buildStatus.Error # NoErr
    /\ ~buildStatus.IsRunning

----------------------------------------------------------------------------
(* Properties of ProcessUserQuery *)

\* the calls made so far
DoneCalls == {c \in {resolver.first, resolver.second} : c.called}

\* the calls the LLM client answered
AnsweredCalls == IF resolver.client.err = NoErr THEN DoneCalls ELSE {}

FieldIsList(field) ==
    /\ field \in DOMAIN resolver.client.possibleMatches
    /\ resolver.client.possibleMatches[field].type = "list"

\* the string elements of a candidate field that is a list
FieldStrings(field) ==
    IF FieldIsList(field)
    THEN {e.val : e \in {x \in Range(resolver.client.possibleMatches[field].items) :
                            x.type = "string"}}
    ELSE {}

\* the field is a list of strings, typed ([]string) or not ([]interface{})
FieldIsStringList(field) ==
    /\ field \in DOMAIN resolver.client.possibleMatches
    /\ resolver.client.possibleMatches[field].type \in {"list", "strings"}
    /\ \A e \in Range(resolver.client.possibleMatches[field].items) : e.type = "string"

\* the field is missing, not a list, or a list with an element that is no string
WrongShape(field) == ~FieldIsStringList(field)

\* the tokens of a field when a field of the wrong shape counts as empty
WellFormedStrings(field) ==
    IF FieldIsStringList(field)
    THEN {e.val : e \in Range(resolver.client.possibleMatches[field].items)}
    ELSE {}

\* the names an index returns for a set of tokens
Lookup(index, tokens) == UNION {index.Map[t] : t \in tokens \cap DOMAIN index.Map}

\* the labels of the label-value catalog that hold one of the values
LabelsHolding(values) ==
    {l \in DOMAIN resolver.maps.labelValueMap :
        resolver.maps.labelValueMap[l] \cap values # {}}

KeyParses(key) == UnmarshalKey(key).ok

\* the entry's key is a pair of a metric token and a label token of the call
KeyMatches(key) ==
    /\ KeyParses(key)
    /\ Len(UnmarshalKey(key).keyParts) = 2
    /\ UnmarshalKey(key).keyParts[1] \in FieldStrings("possible_metric_names")
    /\ UnmarshalKey(key).keyParts[2] \in FieldStrings("possible_label_names")

\* C13: every key of RelevantMetrics is a name the metric index returns for a
\* metric token of the call, and every label under a metric m is a label of m
\* in the metric-label catalog.
C13_MetricsAndLabelsKnown ==
    \A c \in DoneCalls :
        \A m \in DOMAIN c.out.relevantMetrics :
            /\ m \in Lookup(resolver.maps.metricMap, FieldStrings("possible_metric_names"))
            /\ \A l \in DOMAIN c.out.relevantMetrics[m] :
                  /\ m \in DOMAIN resolver.maps.metricLabelMap
                  /\ l \in DOMAIN resolver.maps.metricLabelMap[m]

\* a metric without series is a key with no label, and Go_threads has one label
\* found by a label token and one found by a value token
C13_Witness ==
    \E c \in DoneCalls :
        /\ c.out.err = NoErr
        /\ "m02" \in DOMAIN c.out.relevantMetrics
        /\ c.out.relevantMetrics["m02"] = <<>>
        /\ FieldStrings("possible_label_names") = {"job"}
        /\ FieldStrings("possible_label_values") = {"a"}
        /\ DOMAIN c.out.relevantMetrics["Go_threads"] = {"Job", "l01"}

\* C14: every LabelContextDetail of RelevantMetrics and of RelevantLabels holds
\* at most 5 sample values when ProcessUserQuery returns.
C14_AtMostFiveSamples ==
    \A c \in DoneCalls :
        /\ \A m \in DOMAIN c.out.relevantMetrics :
              \A l \in DOMAIN c.out.relevantMetrics[m] :
                  Len(c.out.relevantMetrics[m][l].Values) <= sampleLimit
        /\ \A l \in DOMAIN c.out.relevantLabels :
              Len(c.out.relevantLabels[l].Values) <= sampleLimit

\* the labels a label token finds whose catalog entry holds more than 5 values
LargeLabels ==
    {l \in Lookup(resolver.maps.labelMap, FieldStrings("possible_label_names")) :
        /\ l \in DOMAIN resolver.maps.labelValueMap
        /\ Cardinality(resolver.maps.labelValueMap[l]) > sampleLimit}

\* C15: a label found by a label token whose catalog entry holds more than 5
\* values gets exactly 5 of them (no value token being given), and two calls
\* with the same inputs give it the same 5 values in the same order.
C15_SamplesDeterministic ==
    FieldStrings("possible_label_values") = {} =>
        \A l \in LargeLabels :
            /\ \A c \in AnsweredCalls :
                  c.out.err = NoErr =>
                      /\ Len(c.out.relevantLabels[l].Values) = sampleLimit
                      /\ Range(c.out.relevantLabels[l].Values)
                             \subseteq resolver.maps.labelValueMap[l]
            /\ /\ resolver.first.called /\ resolver.first.out.err = NoErr
               /\ resolver.second.called /\ resolver.second.out.err = NoErr
               /\ resolver.first.nlpToMetricMap = resolver.second.nlpToMetricMap
               => resolver.first.out.relevantLabels[l].Values
                      = resolver.second.out.relevantLabels[l].Values

\* C16: two calls on the same candidate tokens, indexes and catalogs, with any
\* two history tables, return the same RelevantMetrics and RelevantLabels when
\* neither returns an error.
C16_HistoryOnlyInHistoryContext ==
    /\ resolver.first.called
    /\ resolver.second.called
    /\ resolver.first.out.err = NoErr
    /\ resolver.second.out.err = NoErr
    => /\ resolver.first.out.relevantMetrics = resolver.second.out.relevantMetrics
       /\ resolver.first.out.relevantLabels = resolver.second.out.relevantLabels

\* the three fields are lists and none of their tokens resolves to anything
NothingResolves ==
    /\ \A f \in CandidateFields : FieldIsList(f)
    /\ Lookup(resolver.maps.metricMap, FieldStrings("possible_metric_names")) = {}
    /\ Lookup(resolver.maps.labelMap, FieldStrings("possible_label_names")) = {}
    /\ LabelsHolding(FieldStrings("possible_label_values")) = {}

\* C17: empty candidate lists, and lists of tokens that resolve to nothing,
\* give empty RelevantMetrics and RelevantLabels and no error.
C17_NothingResolvedNoError ==
    \A c \in AnsweredCalls :
        NothingResolves =>
            /\ c.out.err = NoErr
            /\ c.out.relevantMetrics = <<>>
            /\ c.out.relevantLabels = <<>>

\* the metrics and labels a call finds for given tokens of the three fields
ResolvedAs(c, metricTokens, labelTokens, valueTokens) ==
    /\ DOMAIN c.out.relevantMetrics = Lookup(resolver.maps.metricMap, metricTokens)
    /\ DOMAIN c.out.relevantLabels =
           Lookup(resolver.maps.labelMap, labelTokens) \cup LabelsHolding(valueTokens)

\* C18: a field that is missing, not a list, or holds an element that is no
\* string counts as empty; the call returns no error and resolves the tokens
\* of the well-formed fields.
C18_WrongShapeFieldIsEmpty ==
    \A c \in AnsweredCalls :
        /\ (\E f \in CandidateFields : WrongShape(f)) => c.out.err = NoErr
        /\ c.out.err = NoErr =>
              ResolvedAs(c, WellFormedStrings("possible_metric_names"),
                         WellFormedStrings("possible_label_names"),
                         WellFormedStrings("possible_label_values"))

\* some key or some value of the table cannot be parsed
MalformedHistory(h) ==
    \E k \in DOMAIN h : ~KeyParses(k) \/ ~UnmarshalValue(h[k]).ok

\* C19 as stated: a history table with a key or a value that cannot be parsed
\* makes ProcessUserQuery return an error.
C19_MalformedHistoryFatal ==
    \A c \in AnsweredCalls :
        MalformedHistory(c.nlpToMetricMap) => c.out.err # NoErr

\* C19 amended: the history table is read only when both name fields are
\* lists; then a key that cannot be parsed is fatal, and a value that cannot be
\* parsed is fatal when its key is a pair of a metric token and a label token
\* of the call.  No other entry makes the call fail.
C19_ParsedHistoryFatal ==
    \A c \in AnsweredCalls :
        c.out.err # NoErr <=>
            /\ FieldIsList("possible_metric_names")
            /\ FieldIsList("possible_label_names")
            /\ \E k \in DOMAIN c.nlpToMetricMap :
                  \/ ~KeyParses(k)
                  \/ KeyMatches(k) /\ ~UnmarshalValue(c.nlpToMetricMap[k]).ok

\* the same tokens with a bad value under their own pair and under another pair
C19_Witness ==
    /\ resolver.first.called /\ resolver.second.called
    /\ resolver.client.err = NoErr
    /\ resolver.first.nlpToMetricMap = (KeyCpuTag :> ValueNotJSON)
    /\ KeyMatches(KeyCpuTag)
    /\ resolver.first.out.err # NoErr
    /\ resolver.second.nlpToMetricMap = (KeyDiskEnv :> ValueNotJSON)
    /\ resolver.second.out.err = NoErr

\* the string elements of a candidate field in their order, none if the field
\* is no []interface{}
TokensOfField(field) ==
    LET l == AsList(resolver.client.possibleMatches, field)
    IN  IF l.ok THEN StringTokens(l.items) ELSE <<>>

\* how often metric m is visited: once for every metric token that names it
MetricVisits(m) ==
    LET toks == TokensOfField("possible_metric_names")
    IN  Cardinality({i \in DOMAIN toks : m \in Lookup(resolver.maps.metricMap, {toks[i]})})

\* how many label tokens name label l
LabelMatches(l) ==
    LET toks == TokensOfField("possible_label_names")
    IN  Cardinality({j \in DOMAIN toks : l \in Lookup(resolver.maps.labelMap, {toks[j]})})

\* the values the catalogs hold: for label l of metric m, for label l
ValuesUnder(m, l) ==
    IF m \in DOMAIN resolver.maps.metricLabelMap /\ l \in DOMAIN resolver.maps.metricLabelMap[m]
    THEN resolver.maps.metricLabelMap[m][l] ELSE {}

ValuesOfLabel(l) ==
    IF l \in DOMAIN resolver.maps.labelValueMap THEN resolver.maps.labelValueMap[l] ELSE {}

\* how many value tokens are values of the set
ValueMatches(values) ==
    LET toks == TokensOfField("possible_label_values")
    IN  Cardinality({j \in DOMAIN toks : toks[j] \in values})

SampleSize(values) ==
    IF Cardinality(values) < sampleLimit THEN Cardinality(values) ELSE sampleLimit

\* detail is the context of a label that label tokens matched k times and whose
\* catalog values are cat, value tokens having matched up to v times: the
\* score is 1 for the first match and 0.5 for every further one, besides what
\* the value tokens added; the values begin with the sample taken at the first
\* match and whatever follows is a value token
LabelTokenContext(detail, k, v, cat) ==
    LET n == SampleSize(cat)
    IN  /\ \E j \in 0..v :
              detail.MatchScore = newMatchScore + labelAgainScore * (k - 1)
                                      + valueMatchScore * j
        /\ Len(detail.Values) >= n
        /\ \A i \in 1..n : detail.Values[i] \in cat
        /\ \A i, j \in 1..n : detail.Values[i] = detail.Values[j] => i = j
        /\ \A i \in (n + 1)..Len(detail.Values) :
              detail.Values[i] \in Range(TokensOfField("possible_label_values"))

\* C23: a label that label tokens match gets score 1 and at most 5 catalog
\* values at its first match and 0.5 more, with the sample kept, at every
\* further match; under a metric the label tokens are matched once for every
\* visit of the metric.
C23_LabelTokenScores ==
    \A c \in AnsweredCalls :
        c.out.err = NoErr =>
            /\ \A m \in DOMAIN c.out.relevantMetrics :
                  \A l \in DOMAIN c.out.relevantMetrics[m] :
                      LabelMatches(l) >= 1 =>
                          LabelTokenContext(c.out.relevantMetrics[m][l],
                                            MetricVisits(m) * LabelMatches(l),
                                            MetricVisits(m) * ValueMatches(ValuesUnder(m, l)),
                                            ValuesUnder(m, l))
            /\ \A l \in DOMAIN c.out.relevantLabels :
                  LabelMatches(l) >= 1 =>
                      LabelTokenContext(c.out.relevantLabels[l], LabelMatches(l),
                                        ValueMatches(ValuesOfLabel(l)), ValuesOfLabel(l))

\* a label with more than 5 values, named by two label tokens under a metric
\* visited twice and twice on its own, no value token matching
C23_Witness ==
    \E c \in AnsweredCalls :
        /\ c.out.err = NoErr
        /\ "Go_threads" \in DOMAIN c.out.relevantMetrics
        /\ "Job" \in DOMAIN c.out.relevantMetrics["Go_threads"]
        /\ MetricVisits("Go_threads") = 2
        /\ LabelMatches("Job") = 2
        /\ Cardinality(ValuesOfLabel("Job")) > sampleLimit
        /\ c.out.relevantMetrics["Go_threads"]["Job"].MatchScore
               = newMatchScore + 3 * labelAgainScore
        /\ Len(c.out.relevantMetrics["Go_threads"]["Job"].Values) = sampleLimit
        /\ c.out.relevantLabels["Job"].MatchScore = newMatchScore + labelAgainScore
        /\ Len(c.out.relevantLabels["Job"].Values) = sampleLimit

\* the score the context of a label has when every value token that was not
\* among the values yet added 0.2 and no other value token added anything
ScoreOfAppended(detail, k, cat) ==
    IF k >= 1
    THEN newMatchScore + labelAgainScore * (k - 1)
             + valueMatchScore * (Len(detail.Values) - SampleSize(cat))
    ELSE newMatchScore + valueMatchScore * (Len(detail.Values) - 1)

\* C24: a value token raises the score of a recorded label by 0.2 only when it
\* is appended to the label's values; a value that is among them already
\* changes nothing.
C24_PresentValueChangesNothing ==
    \A c \in AnsweredCalls :
        c.out.err = NoErr =>
            /\ \A m \in DOMAIN c.out.relevantMetrics :
                  \A l \in DOMAIN c.out.relevantMetrics[m] :
                      c.out.relevantMetrics[m][l].MatchScore =
                          ScoreOfAppended(c.out.relevantMetrics[m][l],
                                          MetricVisits(m) * LabelMatches(l),
                                          ValuesUnder(m, l))
            /\ \A l \in DOMAIN c.out.relevantLabels :
                  c.out.relevantLabels[l].MatchScore =
                      ScoreOfAppended(c.out.relevantLabels[l], LabelMatches(l),
                                      ValuesOfLabel(l))

\* C25: a lookup does not depend on the case of the token: the names the
\* indexes hold under the lowercase form of a candidate token are found.
C25_LookupIgnoresCase ==
    \A c \in AnsweredCalls :
        c.out.err = NoErr =>
            /\ \A t \in Range(TokensOfField("possible_metric_names")) :
                  Lookup(resolver.maps.metricMap, {ToLower(t)})
                      \subseteq DOMAIN c.out.relevantMetrics
            /\ \A t \in Range(TokensOfField("possible_label_names")) :
                  Lookup(resolver.maps.labelMap, {ToLower(t)})
                      \subseteq DOMAIN c.out.relevantLabels

\* C28: the metric tokens the LangChain client returns, a []string, are looked
\* up: the names the metric index holds under such a token are metrics of the
\* result.
C28_LangChainTokensConsumed ==
    \A c \in AnsweredCalls :
        (/\ c.out.err = NoErr
         /\ "possible_metric_names" \in DOMAIN resolver.client.possibleMatches
         /\ resolver.client.possibleMatches["possible_metric_names"].type = "strings") =>
            \A e \in Range(resolver.client.possibleMatches["possible_metric_names"].items) :
                Lookup(resolver.maps.metricMap, {e.val})
                    \subseteq DOMAIN c.out.relevantMetrics

----------------------------------------------------------------------------
(* Properties of the server *)

\* C12: the maps a ProcessUserQuery call reads stay as they were when the call
\* began until it returns, whatever builds run meanwhile; no build step changes
\* the maps the server holds; and a step of ProcessUserQuery changes neither
\* the indexes, the catalogs, the history table nor the documents.
C12_ResolverReadsStableMaps ==
    /\ [](\A h \in Handlers :
             server.handler[h].pc = "called" => ServerMaps = server.handler[h].seen)
    /\ [][server.pc = "serving" => ServerMaps' = ServerMaps]_vars
    /\ [][server.pc = "serving" /\ server' # server =>
             UNCHANGED <<frame, is, disk>>]_vars

\* a call is under way that began before the rebuild loaded its maps, and the
\* rebuild has since added names to the index it loaded
C12_Witness ==
    \E h \in Handlers :
        /\ server.handler[h].pc = "called"
        /\ server.handler[h].began = 1
        /\ AtStage(2, 6)
        /\ is.MetricMap = 2
        /\ frame[2].obj.metricMap # server.handler[h].seen.metricMap
        /\ server.handler[h].seen.metricMap.AllNames # {}

====
